---------------------------- MODULE Spec2Model ----------------------------
(***************************************************************************)
(* Claim approval workflow of the InsureVis web portal.                    *)
(*                                                                         *)
(* The backend tables `claims` and `documents` are shared state.  The      *)
(* car-company portal (src/public/login.js, second half) and the insurance *)
(* portal (src/public/insurance-company/app.js) are two browser sessions,  *)
(* each with its own globals (currentClaim, currentDocuments,              *)
(* currentClaimApproved) and DOM state (which controls are displayed or    *)
(* disabled).  One action is one handler run; every backend call of a      *)
(* handler draws its outcome ("ok", an error result, or a thrown           *)
(* exception) from Outcomes.                                               *)
(*                                                                         *)
(* Not modelled: write-only timestamps (approved_at, rejected_at,          *)
(* is_successful), file storage, audit log, display-only text.             *)
(***************************************************************************)
EXTENDS Integers, Sequences, FiniteSets, TLC

\* ------------------------------------------------------------------ bounds
NumClaims == 1
DocsPerClaim == 2

Claims == 1..NumClaims
Docs == 1..(NumClaims * DocsPerClaim)
ClaimOf(d) == ((d - 1) \div DocsPerClaim) + 1
DocsOf(c) == {d \in Docs : ClaimOf(d) = c}

NoClaim == 0
NoDoc == 0

\* ------------------------------------------------------- program constants
\* One representative per membership pattern of the three type lists:
\*   lto_or           in all three lists
\*   insurance_policy in the car portal's list and the insurance list only
\*   other            in no list
DocTypes == {"lto_or", "insurance_policy", "other"}

\* login.js:342 (car-company portal)
CAR_COMPANY_DOCUMENT_TYPES == {"lto_or", "insurance_policy"}
\* insurance-company/app.js:46
INSURANCE_DOCUMENT_TYPES == {"lto_or", "insurance_policy"}
\* insurance-company/app.js:60 (the insurance portal's own copy, shorter)
INS_CAR_COMPANY_DOCUMENT_TYPES == {"lto_or"}

\* Outcome of one backend call: a result without error, a result carrying
\* an error, or a rejected promise.
Outcomes == {"ok", "error", "throw"}
\* A call whose error result and whose exception are handled alike.
Caught(O) == O \ {"throw"}
\* The outcomes of a call the handler makes only when `made` holds.
Called(made, O) == IF made THEN O ELSE {"ok"}

\* Text is a sequence of characters; the JS null and '' (both falsy, and the
\* code never stores '') are the empty sequence.
Null == << >>
Texts == { << >>, << " " >>, << "r" >>, << " ", "r", " " >> }

RECURSIVE TrimLeft(_)
TrimLeft(s) == IF s # << >> /\ Head(s) = " " THEN TrimLeft(Tail(s)) ELSE s
RECURSIVE TrimRight(_)
TrimRight(s) ==
    IF s # << >> /\ s[Len(s)] = " " THEN TrimRight(SubSeq(s, 1, Len(s) - 1)) ELSE s
\* A confirm handler that reads the textarea without trimming it.
NoTrim(s) == s

\* String.prototype.trim
Trim(s) == TrimRight(TrimLeft(s))

\* rejectionReasonSelect options: nothing chosen, a fixed reason, "others"
ReasonOptions == {"", "document_expired", "others"}

\* -------------------------------------------------------------------- state
VARIABLES
    claims,     \* backend table claims:    [Claims -> row]
    documents,  \* backend table documents: [Docs -> row]
    car,        \* car-company portal session (globals and DOM state)
    ins,        \* insurance portal session
    out,        \* what the last handler showed and sent
    browser,    \* the tab of one user: location, auth session, page script
    probe,      \* a role string, or a user, and what a page's resolver made of it
    live,       \* realtime channels, debounce and polling timers of the car portal
    controls,   \* the submit controls and the calls their handlers have outstanding
    peers       \* car-company reviewers working at once, each between its awaits

vars == << claims, documents, car, ins, out, browser, probe, live, controls,
          peers >>

\* The variables of a review session in a portal, and the others.  A review
\* session starts once bootstrapPortal has called initializeApp, and its
\* actions leave the others as they are.
review == << claims, documents, car, ins, out >>
others == << browser, probe, live, controls, peers >>

\* What a handler run leaves observable: the toast it showed ("success", an
\* "invalid" input message of the form 'Please ...', the "unsaved" error
\* message of a document decision that failed ('Failed to save verification
\* status', 'Failed to reject document'), or any other "error" message), the
\* number of notification requests it sent, whether it rendered
\* the claims table, and the claims its sweep logged as being reverted.
Quiet == [toast |-> "none", sent |-> 0, shown |-> FALSE, reverting |-> {}]
Toast(t) == [Quiet EXCEPT !.toast = t]

\* createTestData: a submitted claim, nothing approved, nothing verified.
InitClaim ==
    [ status |-> "submitted",
      car_company_status |-> "null",
      is_approved_by_car_company |-> FALSE,
      car_company_approval_date |-> "null",
      car_company_approval_notes |-> Null,
      is_approved_by_insurance_company |-> FALSE,
      insurance_company_approval_date |-> "null",
      insurance_company_approval_notes |-> Null ]

InitDoc(t) ==
    [ type |-> t,
      verified_by_car_company |-> FALSE,
      car_company_verification_date |-> "null",
      car_company_verification_notes |-> Null,
      car_company_verified_by |-> "null",
      verified_by_insurance_company |-> FALSE,
      insurance_verification_date |-> "null",
      insurance_verification_notes |-> Null,
      insurance_verified_by |-> "null" ]

\* Globals and DOM state of a portal page right after initializeApp wired it.
InitPortal ==
    [ open |-> TRUE,                    \* the page is loaded in a browser
      currentClaim |-> NoClaim,
      currentDocuments |-> << >>,       \* local copies, in display order
      currentClaimApproved |-> FALSE,
      listed |-> {},                    \* rows of the claims table
      actionsVisible |-> FALSE,         \* decision buttons row displayed
      approveDisabled |-> FALSE,        \* approveClaimBtn.disabled
      rejectDisabled |-> FALSE,         \* rejectClaimBtn.disabled
      viewerOpen |-> FALSE,             \* documentViewerModal displayed
      verifyControls |-> FALSE,         \* .verification-section displayed
      currentDocId |-> NoDoc,           \* documentViewerModal.dataset.currentDocId
      rejectionModal |-> FALSE,         \* rejectionModal displayed
      redirectTimer |-> FALSE ]         \* setTimeout(showClaimsPage + loadClaims) pending

\* The insurance page also tracks which page is shown (viewClaimDocuments sets
\* currentClaim before it decides to show the documents page) and the
\* canVerify argument baked into the rendered grid.
InsInitPortal ==
    [ page |-> "claims", canVerify |-> FALSE ] @@ InitPortal

\* The types of a claim's documents, first to last.
TypeProfiles ==
    { << "lto_or", "insurance_policy" >>,
      << "lto_or", "other" >>,
      << "other", "other" >> }
TypeOf(profile, d) == profile[(((d - 1) % DocsPerClaim) % Len(profile)) + 1]

\* A portal whose page is not open in any browser.
Closed(portal) == [portal EXCEPT !.open = FALSE]

\* The role resolveUserRole finds for the user of the tab ("null": none).
Roles == {"null", "car_company", "insurance_company", "admin"}

\* The pages: the login page '/', the two portals, the admin signup page.
Paths == {"/", "/car-company/", "/insurance-company/", "/admin-signup/"}

\* A page that has just been navigated to: its script has not run yet, its
\* globals and DOM are fresh.  sessionStorage (justLoggedOut) and the auth
\* session outlive the navigation.
\*   step        position of the page's bootstrap: "load" before it runs,
\*               "config" awaiting initSupabase, "session" awaiting getSession
\*               in checkExistingSession, "ready" once it has finished,
\*               "failed" when it threw
\*   afterLogout this load of the login page found the justLoggedOut flag
\*   arrived     how the tab got to this page: "visit" (address bar, link),
\*               "login" (handleLogin), "restore" (checkExistingSession),
\*               "authchange" (onAuthStateChange listener), "portal"
\*               (bootstrapPortal), "logout" (a logout handler)
\*   denied      the login page ended a role resolution without a role
\*   client      supabaseClient has been created on this page
\*   wired       the page's event handlers have been attached
\*   configRequests  the requests of /api/config/supabase made by this page
\*   queried     this page has called the backend (auth or tables)
NewPage(b, path, how) ==
    [ role |-> b.role, session |-> b.session, justLoggedOut |-> b.justLoggedOut,
      location |-> path, arrived |-> how, step |-> "load",
      isLoggingOut |-> FALSE, logoutTimer |-> FALSE, listening |-> FALSE,
      loading |-> FALSE, message |-> "none", app |-> "none",
      afterLogout |-> FALSE, denied |-> "no",
      client |-> FALSE, wired |-> FALSE, configRequests |-> 0,
      queried |-> FALSE ]

\* The tab while a reviewer works in a portal: signed in, initializeApp done.
PortalTab(role, path) ==
    [ NewPage([role |-> role, session |-> TRUE, justLoggedOut |-> FALSE],
              path, "login")
      EXCEPT !.step = "ready", !.app = role, !.client = TRUE, !.wired = TRUE,
             !.configRequests = 1, !.queried = TRUE ]

\* The configuration requests of one page that are counted.
MaxConfigRequests == 2

\* No role string is under test.
NoProbe == [fn |-> "none"]

\* The realtime channels and timers of the car-company portal.
Channels == {"claims", "documents"}

\* The timers one channel's debounce arms, by number.
MaxTimers == 3
Timers == 1..MaxTimers
NoTimer == 0

\* The realtime state once the first loadClaims has displayed the table:
\* the claims channel is subscribed and the claims poll runs.
\*   page        the page with class 'active'
\*   viewLoading the claim of a viewClaimDocuments awaiting loadClaimDocuments
\*   handle      claimsRealtimeReloadTimeout / documentsRealtimeReloadTimeout
\*   pending     the debounce timers armed and not yet fired
\*   running     the timers whose callback is awaiting its reload, each with
\*               the claim its reload was called for
\*   armed       the number of timers armed so far
\*   echo        the change events of the claims table that come from the
\*               list's own updates and are not delivered yet
InitLive ==
    [ page |-> "claims",
      claimsSub |-> TRUE, claimsPoll |-> TRUE,
      docSub |-> FALSE, docPoll |-> FALSE,
      viewLoading |-> NoClaim,
      handle |-> [ch \in Channels |-> NoTimer],
      pending |-> [ch \in Channels |-> {}],
      running |-> [ch \in Channels |-> {}],
      armed |-> 0,
      echo |-> 0 ]

\* No reviewer is modelled between its awaits.
NoPeers == << >>

\* The handlers that issue a backend mutation.
Handlers ==
    { "handleLogin", "handlePasswordReset", "handleSignup",
      "handleDocumentDecision", "confirmDocumentRejection",
      "approveClaim", "rejectClaim" }

\* The invocations of one handler that may be outstanding at once.
MaxOverlap == 2

\* No call outstanding, no pane or modal open.
InitControls ==
    [ outstanding |-> [h \in Handlers |-> 0],  \* calls awaited, per handler
      notice |-> "none",            \* the handler whose result was notified last
      rejectionPane |-> FALSE,      \* the document rejection pane is open
      confirmModal |-> "none" ]     \* approvalConfirmModal / rejectionModal shown

\* The variables outside a review session while one is going on: the tab is
\* in the portal, and the session is followed with no realtime event or timer
\* in flight and no handler overlapping another.
BrowserAtRest ==
    browser = IF car.open THEN PortalTab("car_company", "/car-company/")
              ELSE PortalTab("insurance_company", "/insurance-company/")
OthersAtRest ==
    /\ BrowserAtRest
    /\ probe = NoProbe
    /\ live = InitLive
    /\ controls = InitControls
    /\ peers = NoPeers

\* The car-company portal opened on the test data.
Init ==
    /\ claims = [c \in Claims |-> InitClaim]
    /\ \E ty \in TypeProfiles : documents = [d \in Docs |-> InitDoc(TypeOf(ty, d))]
    /\ car = InitPortal
    /\ ins = Closed(InsInitPortal)
    /\ out = Quiet
    /\ OthersAtRest


\* ---------------------------------------------------------- backend helpers
\* PostgREST update: the named columns are overwritten, the rest kept.
Merge(row, upd) == [f \in DOMAIN row |-> IF f \in DOMAIN upd THEN upd[f] ELSE row[f]]
UpdateClaim(cl, c, upd) == [cl EXCEPT ![c] = Merge(cl[c], upd)]
UpdateDoc(dc, d, upd) == [dc EXCEPT ![d] = Merge(dc[d], upd)]

Min(S) == CHOOSE x \in S : \A y \in S : x <= y

\* Document ids of a set in display order (is_primary / created_at order).
RECURSIVE Ordered(_)
Ordered(S) == IF S = {} THEN << >> ELSE << Min(S) >> \o Ordered(S \ {Min(S)})

\* Array.prototype.findIndex over currentDocuments, 0 for "not found" (-1).
FindIndex(list, d) ==
    IF \E i \in 1..Len(list) : list[i].id = d
    THEN CHOOSE i \in 1..Len(list) : list[i].id = d
    ELSE 0

\* =================================================== car-company portal ===

\* loadClaims, migration step: the status a row with null/pending
\* car_company_status is given.
CarMigratedStatus(row) ==
    IF row.is_approved_by_car_company = TRUE THEN "approved"
    ELSE IF row.is_approved_by_car_company = FALSE /\ row.car_company_approval_notes # Null
         THEN "rejected"
         ELSE "pending"

\* The rows the migration query selects.
CarClaimsToMigrate(cl) ==
    {c \in Claims : cl[c].car_company_status \in {"null", "pending"}}

\* for (const update of updates) await update(...): an error result is
\* ignored, a thrown exception leaves the loop.  snap is the selected data.
RECURSIVE CarMigrateLoop(_, _, _, _)
CarMigrateLoop(cl, snap, todo, r) ==
    IF todo = {} THEN cl
    ELSE LET c == Min(todo) IN
         IF r[c] = "throw" THEN cl
         ELSE CarMigrateLoop(
                  IF r[c] = "ok"
                  THEN UpdateClaim(cl, c, [car_company_status |-> CarMigratedStatus(snap[c])])
                  ELSE cl,
                  snap, todo \ {c}, r)

CarMigrate(cl, rSel, rUpd) ==
    IF rSel = "ok" THEN CarMigrateLoop(cl, cl, CarClaimsToMigrate(cl), rUpd) ELSE cl

\* loadClaims, consistency sweep: the claims flagged approved (by status or
\* by flag) that have an unverified document of a car-company type.
CarHasUnverifiedDocs(dc, c) ==
    \E d \in DocsOf(c) :
        /\ dc[d].type \in CAR_COMPANY_DOCUMENT_TYPES
        /\ ~dc[d].verified_by_car_company

CarIsApproved(row) ==
    row.car_company_status = "approved" \/ row.is_approved_by_car_company = TRUE

\* A sweep that leaves out the claim open on the documents page.
ClaimsToRevertNotOpen(cl, dc) ==
    {c \in Claims : /\ CarIsApproved(cl[c]) /\ CarHasUnverifiedDocs(dc, c)
                    /\ c # car.currentClaim}

ClaimsToRevert(cl, dc) ==
    {c \in Claims : CarIsApproved(cl[c]) /\ CarHasUnverifiedDocs(dc, c)}

\* A sweep update that clears the flag and the date but keeps the status.
CarRevertFlagOnly ==
    [ is_approved_by_car_company |-> FALSE,
      car_company_approval_date |-> "null" ]

CarRevertUpdate ==
    [ car_company_status |-> "pending",
      is_approved_by_car_company |-> FALSE,
      car_company_approval_date |-> "null" ]

\* update(...).in('id', claimsToRevert)
CarRevert(cl, ids) ==
    [c \in Claims |-> IF c \in ids THEN Merge(cl[c], CarRevertUpdate) ELSE cl[c]]

\* loadClaims as a whole: [claims, listed, out] after the run.
CarLoadClaimsRun(cl, dc, listed, rMigSel, rMigUpd, rFetch, rSweep) ==
    LET migrated == CarMigrate(cl, rMigSel, rMigUpd)
        toRevert == ClaimsToRevert(migrated, dc)
    IN  IF rFetch # "ok"
        THEN [claims |-> migrated, listed |-> listed, out |-> Toast("error")]
        ELSE IF toRevert # {} /\ rSweep = "throw"
        THEN [ claims |-> migrated, listed |-> listed,
               out |-> [Toast("error") EXCEPT !.reverting = toRevert] ]
        ELSE [ claims |-> IF toRevert # {} /\ rSweep = "ok"
                          THEN CarRevert(migrated, toRevert) ELSE migrated,
               listed |-> Claims,
               out |-> [Quiet EXCEPT !.shown = TRUE, !.reverting = toRevert] ]

\* The outcomes of the calls one loadClaims run makes: the migration select,
\* one update per selected row, the fetch, and the sweep's update when the
\* fetched data have a claim to revert.
CarLoadClaimsCalls(O, cl, dc) ==
    { r \in [ migSel : Caught(O), migUpd : [Claims -> O],
              fetch : Caught(O), sweep : O ] :
        /\ \A c \in Claims :
              (r.migSel # "ok" \/ c \notin CarClaimsToMigrate(cl)) => r.migUpd[c] = "ok"
        /\ (r.fetch # "ok" \/ ClaimsToRevert(CarMigrate(cl, r.migSel, r.migUpd), dc) = {})
              => r.sweep = "ok" }

CarLoadClaims(O) ==
    /\ car.open
    /\ UNCHANGED others
    /\ \E k \in CarLoadClaimsCalls(O, claims, documents) :
           LET rMigSel == k.migSel
               rMigUpd == k.migUpd
               rFetch == k.fetch
               rSweep == k.sweep
               r == CarLoadClaimsRun(claims, documents, car.listed,
                                     rMigSel, rMigUpd, rFetch, rSweep)
           IN  /\ claims' = r.claims
               /\ car' = [car EXCEPT !.listed = r.listed]
               /\ out' = r.out
               /\ UNCHANGED << documents, ins >>

\* The local copy the car portal keeps of a document row.
CarLocalDoc(dc, d) ==
    [ id |-> d,
      verified |-> dc[d].verified_by_car_company,
      notes |-> dc[d].car_company_verification_notes ]

\* select * from documents where claim_id = c and type in CAR_COMPANY_DOCUMENT_TYPES
CarFetchDocuments(dc, c) ==
    LET ids == Ordered({d \in DocsOf(c) : dc[d].type \in CAR_COMPANY_DOCUMENT_TYPES})
    IN  [i \in 1..Len(ids) |-> CarLocalDoc(dc, ids[i])]

AllVerified(list) == Len(list) > 0 /\ \A i \in 1..Len(list) : list[i].verified

\* setDecisionButtonsState(claim), reading currentDocuments
CarSetDecisionButtonsState(p, flag) ==
    [p EXCEPT !.approveDisabled = ~AllVerified(p.currentDocuments) \/ flag,
              !.rejectDisabled = flag]

\* updateDocumentStats: the decision row is shown only for an open claim that
\* is not view-only while the viewer is closed.
CarUpdateDocumentStats(p) ==
    [p EXCEPT !.actionsVisible =
        p.currentClaim # NoClaim /\ ~p.currentClaimApproved /\ ~p.viewerOpen]

\* applyApprovedState(claim)
CarApplyApprovedState(p, row) ==
    LET approved == row.is_approved_by_car_company
        rejected == row.car_company_status = "rejected"
    IN  [p EXCEPT !.currentClaimApproved = approved \/ rejected,
                  !.actionsVisible =
                      IF approved \/ rejected THEN FALSE
                      ELSE IF ~p.viewerOpen THEN TRUE ELSE p.actionsVisible]

\* loadClaimDocuments(claimId): the portal state after the run and the toast.
CarLoadClaimDocumentsRun(p, cl, dc, c, rClaim, rDocs) ==
    IF rClaim # "ok" THEN [car |-> p, out |-> Toast("error")]
    ELSE LET row == cl[c]
             p1 == [p EXCEPT !.currentClaim = c,
                             !.currentClaimApproved =
                                 row.car_company_status \in {"approved", "rejected"}]
         IN  IF rDocs # "ok" THEN [car |-> p1, out |-> Toast("error")]
             ELSE LET p2 == [p1 EXCEPT !.currentDocuments = CarFetchDocuments(dc, c)]
                      p3 == CarUpdateDocumentStats(p2)
                      p4 == CarSetDecisionButtonsState(p3, row.is_approved_by_car_company)
                  IN  [car |-> CarApplyApprovedState(p4, row), out |-> Quiet]

\* A displayed modal (document viewer, rejection modal) covers the page: the
\* controls of the page under it take no click.
PageClickable(p) == ~p.viewerOpen /\ ~p.rejectionModal

\* viewClaimDocuments(claimId): a click on a row of the claims table.
CarViewClaimDocuments(O, c) ==
    /\ car.open
    /\ UNCHANGED others
    /\ car.currentClaim = NoClaim
    /\ PageClickable(car)
    /\ c \in car.listed
    /\ \E rClaim \in Caught(O) : \E rDocs \in Called(rClaim = "ok", Caught(O)) :
        LET r == CarLoadClaimDocumentsRun([car EXCEPT !.currentClaim = c],
                                          claims, documents, c, rClaim, rDocs)
        IN  /\ car' = r.car
            /\ out' = r.out
    /\ UNCHANGED << claims, documents, ins >>

\* loadClaimDocuments(currentClaim) from the documents poll or realtime event.
CarReloadDocuments(O) ==
    /\ car.open
    /\ UNCHANGED others
    /\ car.currentClaim # NoClaim
    /\ \E rClaim \in Caught(O) : \E rDocs \in Called(rClaim = "ok", Caught(O)) :
        LET r == CarLoadClaimDocumentsRun(car, claims, documents, car.currentClaim,
                                          rClaim, rDocs)
        IN  /\ car' = r.car
            /\ out' = r.out
    /\ UNCHANGED << claims, documents, ins >>

\* viewDocument(documentId), on the portal state.
CarViewDocumentRun(p, d) ==
    IF FindIndex(p.currentDocuments, d) = 0 THEN p
    ELSE [p EXCEPT !.actionsVisible = FALSE,
                   !.verifyControls = ~p.currentClaimApproved,
                   !.currentDocId = d,
                   !.viewerOpen = TRUE]

\* A click on a document of the grid.
CarViewDocument(d) ==
    /\ car.open
    /\ UNCHANGED others
    /\ car.currentClaim # NoClaim
    /\ PageClickable(car)
    /\ FindIndex(car.currentDocuments, d) # 0
    /\ car' = CarViewDocumentRun(car, d)
    /\ out' = Quiet
    /\ UNCHANGED << claims, documents, ins >>

\* navigateDocument(direction): prev (-1) or next (1) inside the viewer; the
\* button at either end of the list is disabled.
CarNavigateDocument(direction) ==
    /\ car.open
    /\ UNCHANGED others
    /\ LET i == FindIndex(car.currentDocuments, car.currentDocId)
       IN  /\ car.viewerOpen
           /\ i # 0
           /\ i + direction \in 1..Len(car.currentDocuments)
           /\ car' = CarViewDocumentRun(car, car.currentDocuments[i + direction].id)
           /\ out' = Quiet
           /\ UNCHANGED << claims, documents, ins >>

\* closeDocumentViewer
CarCloseDocumentViewer ==
    /\ car.open
    /\ UNCHANGED others
    /\ car.viewerOpen
    /\ car' = [car EXCEPT !.viewerOpen = FALSE,
                          !.actionsVisible =
                              IF car.currentClaim # NoClaim /\ ~car.currentClaimApproved
                              THEN TRUE ELSE car.actionsVisible]
    /\ out' = Quiet
    /\ UNCHANGED << claims, documents, ins >>

\* The step that follows a document decision.  When the document is not the
\* last one, navigateDocument(1) (which does nothing for an unknown
\* document); otherwise `last`: close the viewer, or show the document again.
CarAdvance(p, d, last) ==
    LET i == FindIndex(p.currentDocuments, d)
    IN  IF i < Len(p.currentDocuments)
        THEN IF i = 0 THEN p ELSE CarViewDocumentRun(p, p.currentDocuments[i + 1].id)
        ELSE last

\* currentDocuments[docIndex] = { ...currentDocuments[docIndex], ...updateData }
SetLocal(list, d, upd) ==
    [i \in 1..Len(list) |-> IF list[i].id = d THEN Merge(list[i], upd) ELSE list[i]]

\* handleDocumentDecision with the note of a verified document left as it was.
CarVerifyKeepsNotes(isVerified, notes) ==
    [ verified_by_car_company |-> isVerified,
      car_company_verified_by |-> "user",
      car_company_verification_date |-> IF isVerified THEN "ts" ELSE "null" ]

CarVerifyUpdate(isVerified, notes) ==
    [ verified_by_car_company |-> isVerified,
      car_company_verified_by |-> "user",
      car_company_verification_date |-> IF isVerified THEN "ts" ELSE "null",
      car_company_verification_notes |-> IF isVerified THEN Null ELSE notes ]

CarClearApproval ==
    [ is_approved_by_car_company |-> FALSE, car_company_approval_date |-> "null" ]

\* handleDocumentDecision, the safety guard: a claim found approved while the
\* global status is neither submitted nor approved is put back to pending.
CarSafetyGuard(cl, c, allDocsVerified, rRow, rUpd) ==
    IF c # NoClaim /\ allDocsVerified /\ rRow = "ok"
       /\ CarIsApproved(cl[c]) /\ cl[c].status \notin {"submitted", "approved"}
       /\ rUpd = "ok"
    THEN UpdateClaim(cl, c, [is_approved_by_car_company |-> FALSE,
                             car_company_status |-> "pending"])
    ELSE cl

\* The document update came back with an error and the local copy was changed
\* all the same.
CarDocumentUpdateOptimistic(p, cl, dc) ==
    [ claims |-> cl, documents |-> dc,
      car |-> [p EXCEPT !.currentDocuments =
                  SetLocal(p.currentDocuments, p.currentDocId,
                           [verified |-> ~dc[p.currentDocId].verified_by_car_company])],
      out |-> Toast("unsaved") ]

\* handleDocumentDecision and confirmDocumentRejection when the update of the
\* document returns an error (or the call throws): the message, and return.
CarDocumentUpdateFailed(p, cl, dc) ==
    [claims |-> cl, documents |-> dc, car |-> p, out |-> Toast("unsaved")]

\* handleDocumentDecision(decision) after the view-only check, for a signed-in
\* user: [claims, documents, car, out] after the run.
CarHandleDocumentDecisionRun(p, cl, dc, isVerified, rDoc, rClr, rRow, rGuard, rFresh) ==
    LET d == p.currentDocId
        c == p.currentClaim
    IN  IF rDoc # "ok"
        THEN CarDocumentUpdateFailed(p, cl, dc)
        ELSE
        LET dc1 == UpdateDoc(dc, d, CarVerifyUpdate(isVerified,
                                        dc[d].car_company_verification_notes))
            p1 == [p EXCEPT !.currentDocuments =
                       SetLocal(p.currentDocuments, d,
                                [ verified |-> isVerified,
                                  notes |-> IF isVerified THEN Null
                                            ELSE dc[d].car_company_verification_notes ])]
            cl1 == IF ~isVerified /\ c # NoClaim /\ rClr = "ok"
                   THEN UpdateClaim(cl, c, CarClearApproval) ELSE cl
            cl2 == CarSafetyGuard(cl1, c, AllVerified(p1.currentDocuments), rRow, rGuard)
            p2 == CarUpdateDocumentStats([p1 EXCEPT !.actionsVisible = FALSE])
            p3 == IF c # NoClaim /\ rFresh = "ok"
                  THEN CarSetDecisionButtonsState(p2, cl2[c].is_approved_by_car_company)
                  ELSE p2
            p4 == [p3 EXCEPT !.actionsVisible = FALSE]
            closed == [p4 EXCEPT !.viewerOpen = FALSE,
                                 !.actionsVisible =
                                     ~p4.currentClaimApproved /\ c # NoClaim]
        IN  [ claims |-> cl2, documents |-> dc1,
              car |-> CarAdvance(p4, d, closed),
              out |-> Toast("success") ]

\* The outcomes of the calls one handleDocumentDecision run makes.
CarDecisionCalls(O, p, cl, isVerified) ==
    LET c == p.currentClaim
        allVerified ==
            AllVerified(SetLocal(p.currentDocuments, p.currentDocId,
                                 [verified |-> isVerified]))
    IN  { r \in [ doc : Caught(O), clr : Caught(O), row : Caught(O),
                  guard : Caught(O), fresh : Caught(O) ] :
            /\ (r.doc # "ok" \/ isVerified \/ c = NoClaim) => r.clr = "ok"
            /\ (r.doc # "ok" \/ c = NoClaim \/ ~allVerified) => r.row = "ok"
            /\ (r.doc # "ok" \/ c = NoClaim \/ ~allVerified \/ r.row # "ok"
                  \/ ~CarIsApproved(cl[c])
                  \/ cl[c].status \in {"submitted", "approved"}) => r.guard = "ok"
            /\ (r.doc # "ok" \/ c = NoClaim) => r.fresh = "ok" }

\* A click on Verify (decision = "verify"), or a call with any other decision.
\* Without a signed-in user the page is left for '/'.
CarHandleDocumentDecision(O, decision) ==
    /\ car.open
    /\ UNCHANGED others
    /\ car.viewerOpen /\ car.verifyControls
    /\ IF car.currentClaimApproved
       THEN /\ out' = Toast("error")
            /\ UNCHANGED << claims, documents, car, ins >>
       ELSE IF car.currentDocId = NoDoc
       THEN /\ out' = Quiet
            /\ UNCHANGED << claims, documents, car, ins >>
       ELSE \E hasUser \in BOOLEAN : \E k \in CarDecisionCalls(O, car, claims, decision = "verify") :
            LET rDoc == k.doc
                rClr == k.clr
                rRow == k.row
                rGuard == k.guard
                rFresh == k.fresh
            IN
            IF ~hasUser
            THEN /\ car' = InitPortal
                 /\ out' = Toast("error")
                 /\ UNCHANGED << claims, documents, ins >>
            ELSE LET r == CarHandleDocumentDecisionRun(car, claims, documents,
                              decision = "verify", rDoc, rClr, rRow, rGuard, rFresh)
                 IN  /\ claims' = r.claims
                     /\ documents' = r.documents
                     /\ car' = r.car
                     /\ out' = r.out
                     /\ UNCHANGED ins

\* The note a document rejection stores.
RejectionNotes(reason, text) ==
    IF reason = "others" THEN << "Other: " >> \o Trim(text) ELSE << reason >>

\* The rejection pane's input is refused: no reason, or "others" with no text.
RejectionRefused(reason, text) ==
    reason = "" \/ (reason = "others" /\ Trim(text) = << >>)

CarRejectUpdate(notes) ==
    [ verified_by_car_company |-> FALSE,
      car_company_verification_date |-> "null",
      car_company_verification_notes |-> notes ]

\* confirmDocumentRejection after the input checks.
CarConfirmDocumentRejectionRun(p, cl, dc, notes, rDoc, rClr) ==
    LET d == p.currentDocId
        c == p.currentClaim
    IN  IF rDoc # "ok"
        THEN CarDocumentUpdateFailed(p, cl, dc)
        ELSE
        LET dc1 == UpdateDoc(dc, d, CarRejectUpdate(notes))
            p1 == [p EXCEPT !.currentDocuments =
                       SetLocal(p.currentDocuments, d,
                                [verified |-> FALSE, notes |-> notes])]
        IN  IF c # NoClaim /\ rClr = "throw"
            THEN [claims |-> cl, documents |-> dc1, car |-> p1, out |-> Toast("unsaved")]
            ELSE
            LET cl1 == IF c # NoClaim /\ rClr = "ok"
                       THEN UpdateClaim(cl, c, CarClearApproval) ELSE cl
                p2 == CarUpdateDocumentStats(p1)
            IN  [ claims |-> cl1, documents |-> dc1,
                  car |-> CarAdvance(p2, d, CarViewDocumentRun(p2, d)),
                  out |-> Toast("success") ]

\* Reject in the viewer, a reason in the rejection pane, Confirm.
CarConfirmDocumentRejection(O, reason, text) ==
    /\ car.open
    /\ UNCHANGED others
    /\ car.viewerOpen /\ car.verifyControls
    /\ IF RejectionRefused(reason, text)
       THEN /\ out' = Toast("invalid")
            /\ UNCHANGED << claims, documents, car, ins >>
       ELSE IF car.currentDocId = NoDoc
       THEN /\ out' = Quiet
            /\ UNCHANGED << claims, documents, car, ins >>
       ELSE \E rDoc \in Caught(O) :
            \E rClr \in Called(rDoc = "ok" /\ car.currentClaim # NoClaim, O) :
            LET r == CarConfirmDocumentRejectionRun(car, claims, documents,
                         RejectionNotes(reason, text), rDoc, rClr)
            IN  /\ claims' = r.claims
                /\ documents' = r.documents
                /\ car' = r.car
                /\ out' = r.out
                /\ UNCHANGED ins


\* decideClaim: the columns written for a decision.  A falsy notes value is
\* not written.
WithNotes(upd, field, notes) ==
    IF notes # Null THEN [f \in DOMAIN upd \cup {field} |->
                              IF f = field THEN notes ELSE upd[f]]
    ELSE upd

CarDecisionUpdate(decision, notes) ==
    IF decision = "approved"
    THEN WithNotes([ car_company_status |-> "approved",
                     is_approved_by_car_company |-> TRUE,
                     car_company_approval_date |-> "ts" ],
                   "car_company_approval_notes", notes)
    ELSE IF decision = "rejected"
    THEN WithNotes([ car_company_status |-> "rejected",
                     is_approved_by_car_company |-> FALSE,
                     status |-> "rejected",
                     car_company_approval_date |-> "null" ],
                   "car_company_approval_notes", notes)
    ELSE WithNotes([ status |-> "under_review" ], "car_company_approval_notes", notes)

\* The detached block of decideClaim that looks up the claim's user_id and
\* calls sendNotifToUser: the number of notification requests it sends.  It
\* is started before the claim update and does not wait for it.
NotifySent(rSel) == IF rSel = "ok" THEN 1 ELSE 0

\* decideClaim(decision, notes): [claims, car, out] after the run.
CarDecideClaimRun(p, cl, decision, notes, rSel, rUpd) ==
    IF p.currentClaim = NoClaim
    THEN [claims |-> cl, car |-> p, out |-> Toast("error")]
    ELSE LET sent == NotifySent(rSel)
         IN  IF rUpd # "ok"
             THEN [ claims |-> cl, car |-> p,
                    out |-> [Toast("error") EXCEPT !.sent = sent] ]
             ELSE [ claims |-> UpdateClaim(cl, p.currentClaim,
                                           CarDecisionUpdate(decision, notes)),
                    car |-> [p EXCEPT !.actionsVisible = FALSE,
                                      !.redirectTimer = TRUE],
                    out |-> [Toast("success") EXCEPT !.sent = sent] ]

\* Approve, then Confirm in the approval dialog: decideClaim('approved').
CarApproveClaim(O) ==
    /\ car.open
    /\ UNCHANGED others
    /\ car.actionsVisible /\ ~car.approveDisabled
    /\ PageClickable(car)
    /\ \E rSel \in Caught(O), rUpd \in Caught(O) :
        LET r == CarDecideClaimRun(car, claims, "approved", Null, rSel, rUpd)
        IN  /\ claims' = r.claims
            /\ car' = r.car
            /\ out' = r.out
    /\ UNCHANGED << documents, ins >>

\* openRejectionModal: a click on Reject.
CarOpenRejectionModal ==
    /\ car.open
    /\ UNCHANGED others
    /\ car.actionsVisible /\ ~car.rejectDisabled
    /\ PageClickable(car)
    /\ IF car.currentClaim = NoClaim
       THEN /\ out' = Toast("invalid")
            /\ UNCHANGED car
       ELSE /\ car' = [car EXCEPT !.actionsVisible = FALSE, !.rejectionModal = TRUE]
            /\ out' = Quiet
    /\ UNCHANGED << claims, documents, ins >>

\* closeRejectionModal, on the portal state.
CarCloseRejectionModalRun(p) ==
    [p EXCEPT !.rejectionModal = FALSE,
              !.actionsVisible =
                  IF ~p.currentClaimApproved /\ p.currentClaim # NoClaim
                  THEN TRUE ELSE p.actionsVisible]

\* A click outside the rejection modal.
CarCloseRejectionModal ==
    /\ car.open
    /\ UNCHANGED others
    /\ car.rejectionModal
    /\ car' = CarCloseRejectionModalRun(car)
    /\ out' = Quiet
    /\ UNCHANGED << claims, documents, ins >>

\* The Confirm button of the rejection modal, with `text` in the textarea.
CarConfirmRejection(O, text) ==
    /\ car.open
    /\ UNCHANGED others
    /\ car.rejectionModal
    /\ IF Trim(text) = << >>
       THEN /\ out' = Toast("invalid")
            /\ UNCHANGED << claims, car >>
       ELSE \E rSel \in Caught(O), rUpd \in Caught(O) :
            LET r == CarDecideClaimRun(CarCloseRejectionModalRun(car), claims,
                                       "rejected", Trim(text), rSel, rUpd)
            IN  /\ claims' = r.claims
                /\ car' = r.car
                /\ out' = r.out
    /\ UNCHANGED << documents, ins >>

\* showClaimsPage, on the portal state.  It touches neither the document
\* viewer nor currentClaimApproved; a handler that is waiting for a backend
\* call when the redirect timer fires resumes with currentClaim null.
CarShowClaimsPageRun(p) ==
    [p EXCEPT !.currentClaim = NoClaim, !.actionsVisible = FALSE]

\* Back to the claims table.
CarShowClaimsPage ==
    /\ car.open
    /\ UNCHANGED others
    /\ car.currentClaim # NoClaim
    /\ PageClickable(car)
    /\ car' = CarShowClaimsPageRun(car)
    /\ out' = Quiet
    /\ UNCHANGED << claims, documents, ins >>

\* The timer decideClaim sets: showClaimsPage(), then loadClaims().
CarRedirect(O) ==
    /\ car.open
    /\ UNCHANGED others
    /\ car.redirectTimer
    /\ \E k \in CarLoadClaimsCalls(O, claims, documents) :
        LET rMigSel == k.migSel
            rMigUpd == k.migUpd
            rFetch == k.fetch
            rSweep == k.sweep
            r == CarLoadClaimsRun(claims, documents, car.listed,
                                  rMigSel, rMigUpd, rFetch, rSweep)
        IN  /\ claims' = r.claims
            /\ car' = [CarShowClaimsPageRun(car) EXCEPT !.listed = r.listed,
                                                        !.redirectTimer = FALSE]
            /\ out' = r.out
    /\ UNCHANGED << documents, ins >>

\* ===================================================== insurance portal ===

\* The local copy the insurance portal keeps of a document row.
InsLocalDoc(dc, d) ==
    [ id |-> d,
      type |-> dc[d].type,
      verified |-> dc[d].verified_by_insurance_company,
      notes |-> dc[d].insurance_verification_notes ]

\* select * from documents where claim_id = c (every type)
InsFetchDocuments(dc, c) ==
    LET ids == Ordered(DocsOf(c))
    IN  [i \in 1..Len(ids) |-> InsLocalDoc(dc, ids[i])]

\* documents.filter(doc => INSURANCE_DOCUMENT_TYPES.includes(doc.type))
InsuranceDocuments(list) ==
    SelectSeq(list, LAMBDA doc : doc.type \in INSURANCE_DOCUMENT_TYPES)

\* The eligibility test of loadClaims and viewClaimDocuments: the claim has a
\* document of a car-company type and all of them are verified by the car
\* company.
InsEligible(dc, c) ==
    LET carCompanyDocs == {d \in DocsOf(c) : dc[d].type \in INS_CAR_COMPANY_DOCUMENT_TYPES}
    IN  /\ carCompanyDocs # {}
        /\ \A d \in carCompanyDocs : dc[d].verified_by_car_company

\* loadClaims, migration step: rows with status approved whose insurance flag
\* is not set.
InsClaimsToMigrate(cl) ==
    {c \in Claims : cl[c].status = "approved" /\ ~cl[c].is_approved_by_insurance_company}

RECURSIVE InsMigrateLoop(_, _, _)
InsMigrateLoop(cl, todo, r) ==
    IF todo = {} THEN cl
    ELSE LET c == Min(todo) IN
         IF r[c] = "throw" THEN cl
         ELSE InsMigrateLoop(
                  IF r[c] = "ok"
                  THEN UpdateClaim(cl, c, [is_approved_by_insurance_company |-> TRUE])
                  ELSE cl,
                  todo \ {c}, r)

InsMigrate(cl, rSel, rUpd) ==
    IF rSel = "ok" THEN InsMigrateLoop(cl, InsClaimsToMigrate(cl), rUpd) ELSE cl

\* loadClaims as a whole: [claims, listed, out] after the run.
InsLoadClaimsRun(cl, dc, listed, rMigSel, rMigUpd, rFetch) ==
    LET migrated == InsMigrate(cl, rMigSel, rMigUpd)
    IN  IF rFetch # "ok"
        THEN [claims |-> migrated, listed |-> listed, out |-> Toast("error")]
        ELSE [ claims |-> migrated,
               listed |-> {c \in Claims : InsEligible(dc, c)},
               out |-> [Quiet EXCEPT !.shown = TRUE] ]

\* The outcomes of the calls one loadClaims run makes.
InsLoadClaimsCalls(O, cl) ==
    { r \in [ migSel : Caught(O), migUpd : [Claims -> O], fetch : Caught(O) ] :
        \A c \in Claims :
            (r.migSel # "ok" \/ c \notin InsClaimsToMigrate(cl)) => r.migUpd[c] = "ok" }

InsLoadClaims(O) ==
    /\ ins.open
    /\ UNCHANGED others
    /\ \E k \in InsLoadClaimsCalls(O, claims) :
           LET r == InsLoadClaimsRun(claims, documents, ins.listed,
                                     k.migSel, k.migUpd, k.fetch)
           IN  /\ claims' = r.claims
               /\ ins' = [ins EXCEPT !.listed = r.listed]
               /\ out' = r.out
               /\ UNCHANGED << documents, car >>

\* insuranceDocuments.length > 0 && every(verified_by_insurance_company)
InsAllVerified(list) == AllVerified(InsuranceDocuments(list))

\* updateApprovalButtonStatus(insuranceDocuments)
InsUpdateApprovalButtonStatus(p) ==
    [p EXCEPT !.actionsVisible = ~p.currentClaimApproved /\ ~p.viewerOpen,
              !.approveDisabled = ~InsAllVerified(p.currentDocuments)]

\* applyApprovedState(), reading currentClaimApproved and currentClaimData
InsApplyApprovedState(p, row) ==
    LET approved == p.currentClaimApproved /\ row.status = "approved"
        rejected == row.status = "rejected"
    IN  IF approved \/ rejected THEN [p EXCEPT !.actionsVisible = FALSE] ELSE p

\* loadClaimDocuments(claimId): the portal state after the run and the toast.
InsLoadClaimDocumentsRun(p, cl, dc, c, rClaim, rDocs) ==
    IF rClaim # "ok" THEN [ins |-> p, out |-> Toast("error")]
    ELSE LET row == cl[c]
             p1 == [p EXCEPT !.currentClaimApproved =
                                 row.status \in {"approved", "rejected"}]
         IN  IF rDocs # "ok" THEN [ins |-> p1, out |-> Toast("error")]
             ELSE LET p2 == [p1 EXCEPT !.currentDocuments = InsFetchDocuments(dc, c),
                                       !.canVerify = ~p1.currentClaimApproved]
                      p3 == InsUpdateApprovalButtonStatus(p2)
                  IN  [ins |-> InsApplyApprovedState(p3, row), out |-> Quiet]

\* viewClaimDocuments(claimId): a click on a row of the claims table.  The
\* eligibility query is outside any try block: its exception ends the handler
\* without a message.
InsViewClaimDocuments(O, c) ==
    /\ ins.open
    /\ UNCHANGED others
    /\ ins.page = "claims"
    /\ PageClickable(ins)
    /\ c \in ins.listed
    /\ \E rCheck \in O :
       \E rClaim \in Called(rCheck = "ok" /\ InsEligible(documents, c), Caught(O)) :
       \E rDocs \in Called(rCheck = "ok" /\ InsEligible(documents, c) /\ rClaim = "ok",
                           Caught(O)) :
        LET p0 == [ins EXCEPT !.currentClaim = c]
        IN  IF rCheck # "ok"
            THEN /\ ins' = p0
                 /\ out' = IF rCheck = "error" THEN Toast("error") ELSE Quiet
            ELSE IF ~InsEligible(documents, c)
            THEN /\ ins' = p0
                 /\ out' = Toast("error")
            ELSE LET r == InsLoadClaimDocumentsRun([p0 EXCEPT !.page = "documents"],
                                                   claims, documents, c, rClaim, rDocs)
                 IN  /\ ins' = r.ins
                     /\ out' = r.out
    /\ UNCHANGED << claims, documents, car >>

\* loadClaimDocuments(currentClaim) from the documents poll or realtime event.
InsReloadDocuments(O) ==
    /\ ins.open
    /\ UNCHANGED others
    /\ ins.currentClaim # NoClaim
    /\ ins.page = "documents"
    /\ \E rClaim \in Caught(O) : \E rDocs \in Called(rClaim = "ok", Caught(O)) :
        LET r == InsLoadClaimDocumentsRun(ins, claims, documents, ins.currentClaim,
                                          rClaim, rDocs)
        IN  /\ ins' = r.ins
            /\ out' = r.out
    /\ UNCHANGED << claims, documents, car >>

\* viewDocument(documentId, canVerify), on the portal state.
InsViewDocumentRun(p, d, canVerify) ==
    IF FindIndex(p.currentDocuments, d) = 0 THEN p
    ELSE IF canVerify /\ ~p.currentClaimApproved
    THEN [p EXCEPT !.actionsVisible = FALSE,
                   !.verifyControls = TRUE,
                   !.currentDocId = d,
                   !.viewerOpen = TRUE]
    ELSE [p EXCEPT !.actionsVisible = FALSE,
                   !.verifyControls = FALSE,
                   !.viewerOpen = TRUE]

\* A click on a document of the insurance grid.
InsViewDocument(d) ==
    /\ ins.open
    /\ UNCHANGED others
    /\ ins.page = "documents"
    /\ PageClickable(ins)
    /\ FindIndex(InsuranceDocuments(ins.currentDocuments), d) # 0
    /\ ins' = InsViewDocumentRun(ins, d, ins.canVerify)
    /\ out' = Quiet
    /\ UNCHANGED << claims, documents, car >>

\* navigateDocument(direction) on the portal state; nothing for an unknown
\* current document or past either end.
InsNavigateDocumentRun(p, direction) ==
    LET i == FindIndex(p.currentDocuments, p.currentDocId)
    IN  IF i = 0 \/ i + direction \notin 1..Len(p.currentDocuments) THEN p
        ELSE LET nextDoc == p.currentDocuments[i + direction]
             IN  InsViewDocumentRun(p, nextDoc.id,
                                    nextDoc.type \in INSURANCE_DOCUMENT_TYPES)

\* prev (-1) or next (1) inside the viewer.
InsNavigateDocument(direction) ==
    /\ ins.open
    /\ UNCHANGED others
    /\ ins.viewerOpen
    /\ InsNavigateDocumentRun(ins, direction) # ins
    /\ ins' = InsNavigateDocumentRun(ins, direction)
    /\ out' = Quiet
    /\ UNCHANGED << claims, documents, car >>

\* closeDocumentViewer
InsCloseDocumentViewer ==
    /\ ins.open
    /\ UNCHANGED others
    /\ ins.viewerOpen
    /\ ins' = [ins EXCEPT !.viewerOpen = FALSE,
                          !.actionsVisible =
                              IF ins.currentClaim # NoClaim /\ ~ins.currentClaimApproved
                              THEN TRUE ELSE ins.actionsVisible]
    /\ out' = Quiet
    /\ UNCHANGED << claims, documents, car >>

\* The step that follows a document decision: navigateDocument(1) when the
\* document is not the last one, otherwise `last`.
InsAdvance(p, d, last) ==
    IF FindIndex(p.currentDocuments, d) < Len(p.currentDocuments)
    THEN InsNavigateDocumentRun(p, 1)
    ELSE last

\* handleDocumentDecision of the insurance portal writing the car-company
\* flag along with its own.
InsVerifyBothTracks(isVerified, notes) ==
    [ verified_by_insurance_company |-> isVerified,
      verified_by_car_company |-> isVerified,
      insurance_verified_by |-> "user",
      insurance_verification_date |-> IF isVerified THEN "ts" ELSE "null",
      insurance_verification_notes |-> IF isVerified THEN Null ELSE notes ]

InsVerifyUpdate(isVerified, notes) ==
    [ verified_by_insurance_company |-> isVerified,
      insurance_verified_by |-> "user",
      insurance_verification_date |-> IF isVerified THEN "ts" ELSE "null",
      insurance_verification_notes |-> IF isVerified THEN Null ELSE notes ]

InsClearApproval ==
    [ is_approved_by_insurance_company |-> FALSE,
      insurance_company_approval_date |-> "null" ]

\* handleDocumentDecision and confirmDocumentRejection when the update of the
\* document returns an error (or the call throws): the message, and return.
InsDocumentUpdateFailed(p, cl, dc) ==
    [claims |-> cl, documents |-> dc, ins |-> p, out |-> Toast("unsaved")]

\* handleDocumentDecision(decision) after the view-only check, for a signed-in
\* user: [claims, documents, ins, out] after the run.
InsHandleDocumentDecisionRun(p, cl, dc, isVerified, rDoc, rClr) ==
    LET d == p.currentDocId
        c == p.currentClaim
    IN  IF rDoc # "ok"
        THEN InsDocumentUpdateFailed(p, cl, dc)
        ELSE
        LET dc1 == UpdateDoc(dc, d, InsVerifyUpdate(isVerified,
                                        dc[d].insurance_verification_notes))
            cl1 == IF ~isVerified /\ c # NoClaim /\ rClr = "ok"
                   THEN UpdateClaim(cl, c, InsClearApproval) ELSE cl
            p1 == [p EXCEPT !.currentDocuments =
                       SetLocal(p.currentDocuments, d,
                                [ verified |-> isVerified,
                                  notes |-> IF isVerified THEN Null
                                            ELSE dc[d].insurance_verification_notes ])]
            p2 == [InsUpdateApprovalButtonStatus(p1) EXCEPT
                       !.canVerify = ~p1.currentClaimApproved,
                       !.actionsVisible = FALSE]
            closed == [p2 EXCEPT !.viewerOpen = FALSE,
                                 !.actionsVisible =
                                     ~p2.currentClaimApproved /\ c # NoClaim]
        IN  [ claims |-> cl1, documents |-> dc1,
              ins |-> InsAdvance(p2, d, closed),
              out |-> Toast("success") ]

\* A click on Verify (decision = "verify"), or a call with any other decision.
InsHandleDocumentDecision(O, decision) ==
    /\ ins.open
    /\ UNCHANGED others
    /\ ins.viewerOpen /\ ins.verifyControls
    /\ IF ins.currentClaimApproved
       THEN /\ out' = Toast("error")
            /\ UNCHANGED << claims, documents, car, ins >>
       ELSE IF ins.currentDocId = NoDoc
       THEN /\ out' = Quiet
            /\ UNCHANGED << claims, documents, car, ins >>
       ELSE \E hasUser \in BOOLEAN : \E rDoc \in Caught(O) :
            \E rClr \in Called(rDoc = "ok" /\ decision # "verify"
                                 /\ ins.currentClaim # NoClaim, Caught(O)) :
            IF ~hasUser
            THEN /\ ins' = InsInitPortal
                 /\ out' = Toast("error")
                 /\ UNCHANGED << claims, documents, car >>
            ELSE LET r == InsHandleDocumentDecisionRun(ins, claims, documents,
                              decision = "verify", rDoc, rClr)
                 IN  /\ claims' = r.claims
                     /\ documents' = r.documents
                     /\ ins' = r.ins
                     /\ out' = r.out
                     /\ UNCHANGED car

InsRejectUpdate(notes) ==
    [ verified_by_insurance_company |-> FALSE,
      insurance_verification_date |-> "null",
      insurance_verification_notes |-> notes ]

\* confirmDocumentRejection after the input checks.
InsConfirmDocumentRejectionRun(p, cl, dc, notes, rDoc, rClr) ==
    LET d == p.currentDocId
        c == p.currentClaim
    IN  IF rDoc # "ok"
        THEN InsDocumentUpdateFailed(p, cl, dc)
        ELSE
        LET dc1 == UpdateDoc(dc, d, InsRejectUpdate(notes))
            p1 == [p EXCEPT !.currentDocuments =
                       SetLocal(p.currentDocuments, d,
                                [verified |-> FALSE, notes |-> notes])]
        IN  IF c # NoClaim /\ rClr = "throw"
            THEN [claims |-> cl, documents |-> dc1, ins |-> p1, out |-> Toast("unsaved")]
            ELSE
            LET cl1 == IF c # NoClaim /\ rClr = "ok"
                       THEN UpdateClaim(cl, c, InsClearApproval) ELSE cl
                p2 == [InsUpdateApprovalButtonStatus(p1) EXCEPT
                           !.canVerify = ~p1.currentClaimApproved]
            IN  [ claims |-> cl1, documents |-> dc1,
                  ins |-> InsAdvance(p2, d, InsViewDocumentRun(p2, d, TRUE)),
                  out |-> Toast("success") ]

\* Reject in the viewer, a reason in the rejection pane, Confirm.
InsConfirmDocumentRejection(O, reason, text) ==
    /\ ins.open
    /\ UNCHANGED others
    /\ ins.viewerOpen /\ ins.verifyControls
    /\ IF RejectionRefused(reason, text)
       THEN /\ out' = Toast("invalid")
            /\ UNCHANGED << claims, documents, car, ins >>
       ELSE IF ins.currentDocId = NoDoc
       THEN /\ out' = Quiet
            /\ UNCHANGED << claims, documents, car, ins >>
       ELSE \E rDoc \in Caught(O) :
            \E rClr \in Called(rDoc = "ok" /\ ins.currentClaim # NoClaim, O) :
            LET r == InsConfirmDocumentRejectionRun(ins, claims, documents,
                         RejectionNotes(reason, text), rDoc, rClr)
            IN  /\ claims' = r.claims
                /\ documents' = r.documents
                /\ ins' = r.ins
                /\ out' = r.out
                /\ UNCHANGED car

InsDecisionUpdate(decision, notes) ==
    IF decision = "approved"
    THEN WithNotes([ status |-> "approved",
                     is_approved_by_insurance_company |-> TRUE,
                     insurance_company_approval_date |-> "ts" ],
                   "insurance_company_approval_notes", notes)
    ELSE IF decision = "rejected"
    THEN WithNotes([ status |-> "rejected",
                     is_approved_by_insurance_company |-> FALSE ],
                   "insurance_company_approval_notes", notes)
    ELSE WithNotes([ status |-> "under_review" ],
                   "insurance_company_approval_notes", notes)

\* decideClaim(decision, notes): [claims, ins, out] after the run.  As in the
\* car-company portal the notification block is started before the update.
InsDecideClaimRun(p, cl, decision, notes, rSel, rUpd) ==
    IF p.currentClaim = NoClaim
    THEN [claims |-> cl, ins |-> p, out |-> Toast("error")]
    ELSE LET sent == NotifySent(rSel)
         IN  IF rUpd # "ok"
             THEN [ claims |-> cl, ins |-> p,
                    out |-> [Toast("error") EXCEPT !.sent = sent] ]
             ELSE [ claims |-> UpdateClaim(cl, p.currentClaim,
                                           InsDecisionUpdate(decision, notes)),
                    ins |-> [p EXCEPT !.actionsVisible = FALSE,
                                      !.redirectTimer = TRUE],
                    out |-> [Toast("success") EXCEPT !.sent = sent] ]

InsApproveUpdate ==
    [ status |-> "approved",
      is_approved_by_insurance_company |-> TRUE,
      insurance_company_approval_date |-> "ts" ]

\* approveClaim(): [claims, ins, out] after the run.  The notification block
\* is started after the update succeeded.
InsApproveClaimRun(p, cl, rUpd, rSel) ==
    IF p.currentClaim = NoClaim
    THEN [claims |-> cl, ins |-> p, out |-> Quiet]
    ELSE IF rUpd # "ok"
    THEN [claims |-> cl, ins |-> p, out |-> Toast("error")]
    ELSE [ claims |-> UpdateClaim(cl, p.currentClaim, InsApproveUpdate),
           ins |-> [p EXCEPT !.redirectTimer = TRUE],
           out |-> [Toast("success") EXCEPT !.sent = NotifySent(rSel)] ]

\* Approve, then Confirm in the approval modal: approveClaim().
InsApproveClaim(O) ==
    /\ ins.open
    /\ UNCHANGED others
    /\ ins.actionsVisible /\ ~ins.approveDisabled
    /\ PageClickable(ins)
    /\ \E rUpd \in Caught(O) :
       \E rSel \in Called(rUpd = "ok" /\ ins.currentClaim # NoClaim, Caught(O)) :
        LET r == InsApproveClaimRun(ins, claims, rUpd, rSel)
        IN  /\ claims' = r.claims
            /\ ins' = r.ins
            /\ out' = r.out
    /\ UNCHANGED << documents, car >>

\* holdClaimBtn: decideClaim('under_review').
InsHoldClaim(O) ==
    /\ ins.open
    /\ UNCHANGED others
    /\ ins.actionsVisible
    /\ PageClickable(ins)
    /\ \E rSel \in Called(ins.currentClaim # NoClaim, Caught(O)),
          rUpd \in Called(ins.currentClaim # NoClaim, Caught(O)) :
        LET r == InsDecideClaimRun(ins, claims, "under_review", Null, rSel, rUpd)
        IN  /\ claims' = r.claims
            /\ ins' = r.ins
            /\ out' = r.out
    /\ UNCHANGED << documents, car >>

\* openRejectionModal: a click on Reject.
InsOpenRejectionModal ==
    /\ ins.open
    /\ UNCHANGED others
    /\ ins.actionsVisible
    /\ PageClickable(ins)
    /\ IF ins.currentClaim = NoClaim
       THEN /\ out' = Toast("invalid")
            /\ UNCHANGED ins
       ELSE /\ ins' = [ins EXCEPT !.actionsVisible = FALSE, !.rejectionModal = TRUE]
            /\ out' = Quiet
    /\ UNCHANGED << claims, documents, car >>

\* closeRejectionModal, on the portal state.
InsCloseRejectionModalRun(p) ==
    [p EXCEPT !.rejectionModal = FALSE,
              !.actionsVisible =
                  IF ~p.currentClaimApproved /\ p.currentClaim # NoClaim
                  THEN TRUE ELSE p.actionsVisible]

\* A click outside the rejection modal.
InsCloseRejectionModal ==
    /\ ins.open
    /\ UNCHANGED others
    /\ ins.rejectionModal
    /\ ins' = InsCloseRejectionModalRun(ins)
    /\ out' = Quiet
    /\ UNCHANGED << claims, documents, car >>

\* The Confirm button of the rejection modal, with `text` in the textarea.
InsConfirmRejection(O, text) ==
    /\ ins.open
    /\ UNCHANGED others
    /\ ins.rejectionModal
    /\ IF Trim(text) = << >>
       THEN /\ out' = Toast("invalid")
            /\ UNCHANGED << claims, ins >>
       ELSE \E rSel \in Called(ins.currentClaim # NoClaim, Caught(O)),
               rUpd \in Called(ins.currentClaim # NoClaim, Caught(O)) :
            LET r == InsDecideClaimRun(InsCloseRejectionModalRun(ins), claims,
                                       "rejected", Trim(text), rSel, rUpd)
            IN  /\ claims' = r.claims
                /\ ins' = r.ins
                /\ out' = r.out
    /\ UNCHANGED << documents, car >>

\* showClaimsPage, on the portal state.
InsShowClaimsPageRun(p) ==
    [p EXCEPT !.page = "claims", !.currentClaim = NoClaim, !.actionsVisible = FALSE]

\* Back to the claims table.
InsShowClaimsPage ==
    /\ ins.open
    /\ UNCHANGED others
    /\ ins.page = "documents"
    /\ PageClickable(ins)
    /\ ins' = InsShowClaimsPageRun(ins)
    /\ out' = Quiet
    /\ UNCHANGED << claims, documents, car >>

\* The timer decideClaim and approveClaim set: showClaimsPage(), then
\* loadClaims().
InsRedirect(O) ==
    /\ ins.open
    /\ UNCHANGED others
    /\ ins.redirectTimer
    /\ \E k \in InsLoadClaimsCalls(O, claims) :
        LET r == InsLoadClaimsRun(claims, documents, ins.listed,
                                  k.migSel, k.migUpd, k.fetch)
        IN  /\ claims' = r.claims
            /\ ins' = [InsShowClaimsPageRun(ins) EXCEPT !.listed = r.listed,
                                                        !.redirectTimer = FALSE]
            /\ out' = r.out
    /\ UNCHANGED << documents, car >>

\* ====================================== login page and portal bootstrap ===

\* ROLE_ROUTES of the login page, by canonical role ("none": no entry).
ROLE_ROUTES(role) ==
    CASE role = "car_company" -> "/car-company/"
      [] role = "insurance_company" -> "/insurance-company/"
      [] role = "admin" -> "/admin-signup/"
      [] OTHER -> "none"

\* ROLE_ROUTES of the two portals: no entry for admin.
PORTAL_ROLE_ROUTES(role) ==
    CASE role = "car_company" -> "/car-company/"
      [] role = "insurance_company" -> "/insurance-company/"
      [] OTHER -> "none"

\* The review variables while no portal has been initialised in the tab.
ReviewAtRest ==
    /\ claims = [c \in Claims |-> InitClaim]
    /\ documents = [d \in Docs |-> InitDoc("lto_or")]
    /\ car = Closed(InitPortal)
    /\ ins = Closed(InsInitPortal)
    /\ out = Quiet

\* redirectForUser(user, { silent }): without a role it returns, with the
\* message only when it is not silent; with one the tab is sent to its page.
RedirectForUser(b, silent, how) ==
    IF b.role = "null"
    THEN IF silent
         THEN [b EXCEPT !.denied = "silently"]
         ELSE [b EXCEPT !.denied = "message", !.message = "no_role",
                        !.loading = FALSE]
    ELSE NewPage(b, ROLE_ROUTES(b.role), how)

\* bootstrap() of the login page up to its first await: the justLoggedOut
\* flag is read and removed, isLoggingOut set with a timer of one second to
\* clear it, and the configuration requested.
Bootstrap ==
    /\ browser.location = "/"
    /\ browser.step = "load"
    /\ browser' = [browser EXCEPT !.step = "config",
                                  !.configRequests = @ + 1,
                                  !.isLoggingOut = browser.justLoggedOut,
                                  !.logoutTimer = browser.justLoggedOut,
                                  !.afterLogout = browser.justLoggedOut,
                                  !.justLoggedOut = FALSE]
    /\ UNCHANGED << review, probe, live, controls, peers >>

\* setTimeout(() => { isLoggingOut = false }, 1000)
LogoutFlagTimeout ==
    /\ browser.location = "/"
    /\ browser.logoutTimer
    /\ browser' = [browser EXCEPT !.isLoggingOut = FALSE, !.logoutTimer = FALSE]
    /\ UNCHANGED << review, probe, live, controls, peers >>

\* onAuthStateChange registered: the end of bootstrap().
Listening(b) == [b EXCEPT !.step = "ready", !.listening = TRUE]

\* initSupabase() settles in bootstrap() or init(): a failure is thrown and
\* ends the function; otherwise the client is created and wireEvents() runs.
ConfigFailedWiresAnyway(b, rConfig) ==
    [b EXCEPT !.client = (rConfig = "ok"), !.wired = TRUE]
ConfigSettled(b, rConfig) ==
    IF rConfig # "ok" THEN b
    ELSE [b EXCEPT !.client = TRUE, !.wired = TRUE]

\* initSupabase() called by a handler: the client if there is one, a request
\* of the configuration otherwise.
InitSupabaseAgain(b, rConfig) ==
    IF b.client THEN b
    ELSE [b EXCEPT !.configRequests = Min({@ + 1, MaxConfigRequests}),
                   !.client = (rConfig = "ok")]

\* initSupabase() settles.  A failure ends bootstrap() before anything is
\* wired; otherwise the form is wired and checkExistingSession starts: it
\* returns at once while isLoggingOut, and asks for the session otherwise.
ConfigLoaded(O) ==
    /\ browser.location = "/"
    /\ browser.step = "config"
    /\ \E rConfig \in O :
          LET b == ConfigSettled(browser, rConfig)
          IN  browser' = IF rConfig # "ok" THEN [b EXCEPT !.step = "failed"]
                         ELSE IF b.isLoggingOut THEN Listening(b)
                         ELSE [b EXCEPT !.step = "session", !.queried = TRUE]
    /\ UNCHANGED << review, probe, live, controls, peers >>

\* getSession() settles in checkExistingSession: a session found while not
\* logging out goes to redirectForUser, silently.
SessionRestored(O) ==
    /\ browser.location = "/"
    /\ browser.step = "session"
    /\ \E rSession \in O :
          browser' = IF rSession = "ok" /\ browser.session /\ ~browser.isLoggingOut
                     THEN RedirectForUser(Listening(browser), TRUE, "restore")
                     ELSE Listening(browser)
    /\ UNCHANGED << review, probe, live, controls, peers >>

\* An auth event reaches the listener of the login page.  SIGNED_OUT reports
\* the end of the session and is ignored, like any event while isLoggingOut.
AuthEvents == {"INITIAL_SESSION", "SIGNED_IN", "TOKEN_REFRESHED", "SIGNED_OUT"}
AuthStateChange(event) ==
    /\ browser.location = "/"
    /\ browser.listening
    /\ event = "SIGNED_IN" => browser.session
    /\ browser' = IF event = "SIGNED_OUT" THEN [browser EXCEPT !.session = FALSE]
                  ELSE IF browser.isLoggingOut \/ ~browser.session THEN browser
                  ELSE RedirectForUser(browser, TRUE, "authchange")
    /\ UNCHANGED << review, probe, live, controls, peers >>

\* handleLogin: the form is submitted.  filled: both fields have a value;
\* valid: the credentials are those of the user.
HandleLogin(O, filled, valid) ==
    /\ browser.location = "/"
    /\ browser.wired
    /\ ~browser.loading
    /\ \E rConfig \in Called(~browser.client, O) :
       \E rSignIn \in Called(rConfig = "ok", O) :
          LET b == InitSupabaseAgain(browser, rConfig)
              c == [b EXCEPT !.queried = TRUE]
          IN  browser' =
                 IF ~filled THEN [browser EXCEPT !.message = "enter_credentials"]
                 ELSE IF rConfig # "ok"
                 THEN [b EXCEPT !.message = "sign_in_failed", !.loading = FALSE]
                 ELSE IF rSignIn # "ok" \/ ~valid
                 THEN [c EXCEPT !.message = "sign_in_failed", !.loading = FALSE]
                 ELSE RedirectForUser([c EXCEPT !.session = TRUE,
                                                !.loading = TRUE,
                                                !.message = "signing_in"],
                                      FALSE, "login")
    /\ UNCHANGED << review, probe, live, controls, peers >>

\* bootstrapPortal of a portal: without a session, with another role or after
\* a failure the tab is sent away; with the portal's role initializeApp runs.
PortalOf(path) ==
    IF path = "/car-company/" THEN "car_company" ELSE "insurance_company"
\* role is what the portal's resolveUserRole returned for the session's user.
BootstrapPortalRun(b, role, rConfig, rSession) ==
    IF rConfig # "ok" \/ rSession # "ok" \/ ~b.session
    THEN NewPage(b, "/", "portal")
    ELSE IF role # PortalOf(b.location)
    THEN NewPage(b,
                 IF PORTAL_ROLE_ROUTES(role) # "none"
                 THEN PORTAL_ROLE_ROUTES(role) ELSE "/",
                 "portal")
    ELSE [b EXCEPT !.step = "ready", !.app = role,
                   !.client = TRUE, !.wired = TRUE,
                   !.configRequests = 1, !.queried = TRUE]
BootstrapPortal(O) ==
    /\ browser.location \in {"/car-company/", "/insurance-company/"}
    /\ browser.step = "load"
    /\ \E rConfig \in O : \E rSession \in Called(rConfig = "ok", O) :
          browser' = BootstrapPortalRun(browser, browser.role, rConfig, rSession)
    /\ UNCHANGED << review, probe, live, controls, peers >>

\* The logout button of a portal: the flag, signOut(), and in any case '/'.
PortalLogout(O) ==
    /\ browser.location \in {"/car-company/", "/insurance-company/"}
    /\ browser.app # "none"
    /\ \E rSignOut \in O :
          browser' = NewPage([browser EXCEPT !.justLoggedOut = TRUE,
                                             !.session = (rSignOut # "ok")],
                             "/", "logout")
    /\ UNCHANGED << review, probe, live, controls, peers >>

\* init() of the admin signup page, and its logout button, which sets no flag.
SignupInit(O) ==
    /\ browser.location = "/admin-signup/"
    /\ browser.step = "load"
    /\ \E rConfig \in O :
          browser' = [ConfigSettled([browser EXCEPT !.configRequests = @ + 1],
                                    rConfig)
                         EXCEPT !.step = IF rConfig = "ok" THEN "ready"
                                         ELSE "failed"]
    /\ UNCHANGED << review, probe, live, controls, peers >>
SignupLogout(O) ==
    /\ browser.location = "/admin-signup/"
    /\ browser.wired
    /\ \E rConfig \in Called(~browser.client, O) :
       \E rSignOut \in Called(rConfig = "ok", O) :
          browser' = NewPage([browser EXCEPT !.session =
                                 (browser.session /\
                                     (rConfig # "ok" \/ rSignOut # "ok"))],
                             "/", "logout")
    /\ UNCHANGED << review, probe, live, controls, peers >>

\* The user sends the tab to a portal by its address.
Visit(path) ==
    /\ browser.location # path
    /\ browser' = NewPage(browser, path, "visit")
    /\ UNCHANGED << review, probe, live, controls, peers >>

\* A tab opened on the login page by a user of any role, signed in or not.
InitAccess ==
    /\ ReviewAtRest
    /\ probe = NoProbe /\ live = InitLive /\ controls = InitControls /\ peers = NoPeers
    /\ \E role \in Roles, session \in BOOLEAN :
          browser = NewPage([role |-> role, session |-> session,
                             justLoggedOut |-> FALSE], "/", "visit")

AccessNext ==
    \/ Bootstrap
    \/ LogoutFlagTimeout
    \/ ConfigLoaded(Outcomes)
    \/ SessionRestored(Outcomes)
    \/ \E event \in AuthEvents : AuthStateChange(event)
    \/ \E filled, valid \in BOOLEAN : HandleLogin(Outcomes, filled, valid)
    \/ BootstrapPortal(Outcomes)
    \/ PortalLogout(Outcomes)
    \/ SignupInit(Outcomes)
    \/ SignupLogout(Outcomes)
    \/ \E path \in {"/car-company/", "/insurance-company/"} : Visit(path)

\* One tab from the login page on: signing in, being sent to a page, logging
\* out, every call free to fail and the one-second timer free to fire at any
\* point.
SpecAccess == InitAccess /\ [][AccessNext]_vars

\* ============================================ role strings and resolution ===

\* Role strings are sequences of characters.  The words and separators they
\* are made of here:
W_car == << "c", "a", "r" >>
W_Car == << "C", "a", "r" >>
W_CAR == << "C", "A", "R" >>
W_company == << "c", "o", "m", "p", "a", "n", "y" >>
W_COMPANY == << "C", "O", "M", "P", "A", "N", "Y" >>
W_insurance == << "i", "n", "s", "u", "r", "a", "n", "c", "e" >>
W_admin == << "a", "d", "m", "i", "n" >>
W_user == << "u", "s", "e", "r" >>
CarWords == {W_car, W_Car, W_CAR}
CompanyWords == {W_company, W_COMPANY}
Separators == {<< " " >>, << "-" >>, << "_" >>}
Atoms == CarWords \cup CompanyWords \cup Separators \cup {W_insurance, W_admin, W_user}

\* The number of atoms of a role string.
MaxAtoms == 3
AtomLists == UNION {[1..n -> Atoms] : n \in 0..MaxAtoms}

RECURSIVE Flatten(_)
Flatten(list) == IF list = << >> THEN << >> ELSE Head(list) \o Flatten(Tail(list))

\* String.prototype.toLowerCase, with the case of the letters left as it is
\* as its variant.
KeepCase(s) == s
LowerOf ==
    [ ch \in {"A", "C", "M", "N", "O", "P", "R", "Y"} |->
        CASE ch = "A" -> "a" [] ch = "C" -> "c" [] ch = "M" -> "m"
          [] ch = "N" -> "n" [] ch = "O" -> "o" [] ch = "P" -> "p"
          [] ch = "R" -> "r" [] ch = "Y" -> "y" ]
ToLowerCase(s) ==
    [i \in 1..Len(s) |-> IF s[i] \in DOMAIN LowerOf THEN LowerOf[s[i]] ELSE s[i]]

\* String.prototype.replace(/[class]+/g, to): every maximal run of characters
\* of the class becomes one `to`.
RECURSIVE ReplaceRuns(_, _, _)
ReplaceRuns(s, class, to) ==
    IF s = << >> THEN << >>
    ELSE IF Head(s) \in class
    THEN IF Len(s) > 1 /\ s[2] \in class
         THEN ReplaceRuns(Tail(s), class, to)
         ELSE << to >> \o ReplaceRuns(Tail(s), class, to)
    ELSE << Head(s) >> \o ReplaceRuns(Tail(s), class, to)

\* String.prototype.includes
Includes(s, word) ==
    \E i \in 1..(Len(s) - Len(word) + 1) : SubSeq(s, i, i + Len(word) - 1) = word

\* The keys of ROLE_ROUTES, as character sequences after normalisation could
\* produce them, with the names the model gives the canonical roles.
KeyName(normalized) ==
    CASE normalized = W_car \o << "_" >> \o W_company -> "car_company"
      [] normalized = W_insurance \o << "_" >> \o W_company -> "insurance_company"
      [] normalized = W_admin -> "admin"
      [] OTHER -> "null"

\* normalizeRole of the login page.
normalizeRole(role) ==
    IF role = << >> THEN "null"
    ELSE LET normalized == ReplaceRuns(ToLowerCase(Trim(role)), {" ", "-"}, "_")
         IN  IF Includes(normalized, W_car) /\ Includes(normalized, W_company)
             THEN "car_company"
             ELSE IF Includes(normalized, W_insurance) /\ Includes(normalized, W_company)
             THEN "insurance_company"
             ELSE IF Includes(normalized, W_admin) THEN "admin"
             ELSE KeyName(normalized)

\* normalizeRole of the two portals: no admin.
PortalNormalizeRole(role) ==
    IF role = << >> THEN "null"
    ELSE LET value == ReplaceRuns(Trim(ToLowerCase(role)), {" ", "-"}, "_")
         IN  IF Includes(value, W_car) /\ Includes(value, W_company)
             THEN "car_company"
             ELSE IF Includes(value, W_insurance) /\ Includes(value, W_company)
             THEN "insurance_company"
             ELSE IF KeyName(value) \in {"car_company", "insurance_company"}
             THEN KeyName(value) ELSE "null"

\* normalizeSelection of the signup page: the dbRole.
normalizeSelection(role) ==
    IF role = << >> THEN "user"
    ELSE LET metadataRole ==
                 ReplaceRuns(ReplaceRuns(ToLowerCase(Trim(role)), {"_", " "}, "-"),
                             {"-"}, "-")
         IN  IF Includes(metadataRole, W_car) /\ Includes(metadataRole, W_company)
             THEN "car_company"
             ELSE IF Includes(metadataRole, W_insurance)
                        /\ Includes(metadataRole, W_company)
             THEN "insurance_company"
             ELSE IF Includes(metadataRole, W_admin) THEN "admin"
             ELSE "user"

\* The role values found in metadata fields and table rows: none (the field
\* or the row's column is empty or absent), one no normalizer recognises, and
\* two that normalise.
R_none == << >>
R_user == W_user
R_car == W_Car \o << " " >> \o W_company
R_insurance == W_insurance \o << "-" >> \o W_company
RawRoles == {R_none, R_user, R_car, R_insurance}

\* A user: the metadata fields read first, in the order extractRoleFromMetadata
\* of the login page pushes them (app_metadata.role, app_metadata.portal_role,
\* user_metadata.role), and what the query of each fallback table returns:
\* an error, or the value of the row's role column (none without a row).
MetaFields == << "app_role", "app_portal_role", "user_role" >>
TableResults ==
    {[r |-> "error", value |-> R_none]} \cup {[r |-> "ok", value |-> v] : v \in RawRoles}
LoginTables == << "profiles", "portal_profiles", "user_profiles" >>
PortalTables == << "profiles", "portal_profiles" >>
Users == [ meta : [1..Len(MetaFields) -> RawRoles],
           tables : [1..Len(LoginTables) -> TableResults] ]

\* extractRoleFromMetadata: the first candidate that normalises, "null" if
\* none.  roles is the candidates' normalised values in the order pushed.
FirstRole(roles) ==
    LET hits == {i \in 1..Len(roles) : roles[i] # "null"}
    IN  IF hits = {} THEN "null" ELSE roles[Min(hits)]
extractRoleFromMetadata(user) ==
    FirstRole([i \in 1..Len(MetaFields) |-> normalizeRole(user.meta[i])])

\* The portals read role and roles[0] only, not portal_role.
PortalExtractRoleFromMetadata(user) ==
    FirstRole([i \in 1..Len(MetaFields) |->
                  IF MetaFields[i] = "app_portal_role" THEN "null"
                  ELSE PortalNormalizeRole(user.meta[i])])

\* attemptRoleLookup: null on an error or without data, else the normalised
\* value of the column.
attemptRoleLookup(result) ==
    IF result.r # "ok" \/ result.value = R_none THEN "null"
    ELSE normalizeRole(result.value)
PortalRoleLookup(result) ==
    IF result.r # "ok" \/ result.value = R_none THEN "null"
    ELSE PortalNormalizeRole(result.value)

\* The loop over fallbackSources that asks every table and keeps the first
\* role found.
QueryAll(user, n, i, queried) ==
    LET roles == [k \in 1..n |-> attemptRoleLookup(user.tables[k])]
    IN  [role |-> FirstRole(roles), queried |-> [k \in 1..n |-> k]]

\* The loop over fallbackSources from table i on: the tables are asked one
\* after the other, and the first role found is returned.
RECURSIVE QueryFrom(_, _, _, _)
QueryFrom(user, n, i, queried) ==
    IF i > n THEN [role |-> "null", queried |-> queried]
    ELSE LET role == attemptRoleLookup(user.tables[i])
         IN  IF role # "null" THEN [role |-> role, queried |-> Append(queried, i)]
             ELSE QueryFrom(user, n, i + 1, Append(queried, i))
RECURSIVE PortalQueryFrom(_, _, _, _)
PortalQueryFrom(user, n, i, queried) ==
    IF i > n THEN [role |-> "null", queried |-> queried]
    ELSE LET role == PortalRoleLookup(user.tables[i])
         IN  IF role # "null" THEN [role |-> role, queried |-> Append(queried, i)]
             ELSE PortalQueryFrom(user, n, i + 1, Append(queried, i))

\* resolveUserRole of the login page and of the portals: the role, and the
\* fallback tables queried, in order.
resolveUserRole(user) ==
    LET metaRole == extractRoleFromMetadata(user)
    IN  IF metaRole # "null" THEN [role |-> metaRole, queried |-> << >>]
        ELSE QueryFrom(user, Len(LoginTables), 1, << >>)
PortalResolveUserRole(user) ==
    LET metaRole == PortalExtractRoleFromMetadata(user)
    IN  IF metaRole # "null" THEN [role |-> metaRole, queried |-> << >>]
        ELSE PortalQueryFrom(user, Len(PortalTables), 1, << >>)

\* A role string is given to a page's normalizer.
Normalize(fn) ==
    /\ probe.fn = "none"
    /\ "atoms" \in DOMAIN probe
    /\ probe' = [probe EXCEPT !.fn = fn,
                              !.result = CASE fn = "login" -> normalizeRole(probe.role)
                                           [] fn = "portal" -> PortalNormalizeRole(probe.role)
                                           [] fn = "signup" -> normalizeSelection(probe.role)]
    /\ UNCHANGED << review, browser, live, controls, peers >>
NormalizeLogin == Normalize("login")
NormalizePortal == Normalize("portal")
NormalizeSignup == Normalize("signup")

\* Every role string of up to MaxAtoms words and separators, not yet
\* normalised.
InitRoles ==
    /\ ReviewAtRest
    /\ browser = NewPage([role |-> "null", session |-> FALSE, justLoggedOut |-> FALSE],
                         "/", "visit")
    /\ live = InitLive /\ controls = InitControls /\ peers = NoPeers
    /\ \E atoms \in AtomLists :
          probe = [fn |-> "none", atoms |-> atoms, role |-> Flatten(atoms),
                   result |-> "null"]

RolesNext == NormalizeLogin \/ NormalizePortal \/ NormalizeSignup

SpecRoles == InitRoles /\ [][RolesNext]_vars

\* A user's role is resolved by the login page, or by a portal.
ResolveLogin ==
    /\ probe.fn = "none"
    /\ "user" \in DOMAIN probe
    /\ probe' = [probe EXCEPT !.fn = "login", !.result = resolveUserRole(probe.user)]
    /\ UNCHANGED << review, browser, live, controls, peers >>
ResolvePortal ==
    /\ probe.fn = "none"
    /\ "user" \in DOMAIN probe
    /\ probe' = [probe EXCEPT !.fn = "portal",
                              !.result = PortalResolveUserRole(probe.user)]
    /\ UNCHANGED << review, browser, live, controls, peers >>

\* Every user, not yet resolved.
InitResolve ==
    /\ ReviewAtRest
    /\ browser = NewPage([role |-> "null", session |-> TRUE, justLoggedOut |-> FALSE],
                         "/", "visit")
    /\ live = InitLive /\ controls = InitControls /\ peers = NoPeers
    /\ \E user \in Users :
          probe = [fn |-> "none", user |-> user,
                   result |-> [role |-> "null", queried |-> << >>]]

ResolveNext == ResolveLogin \/ ResolvePortal

SpecResolve == InitResolve /\ [][ResolveNext]_vars

\* =================================== realtime, debounce and polling timers ===
\* The car-company portal again, with its awaits and timers as steps of their
\* own: a handler that awaits runs up to the await in one action and from it
\* on in another, and a timer is armed in one action and fires in another.

\* setupDocumentsRealtimeSubscription: the previous channel is removed; with
\* a current claim the channel is subscribed and startDocumentsPolling starts
\* the poll, without one nothing is started.
SetupDocumentsRealtimeSubscription(lv, currentClaim) ==
    IF currentClaim = NoClaim THEN [lv EXCEPT !.docSub = FALSE]
    ELSE [lv EXCEPT !.docSub = TRUE, !.docPoll = TRUE]

\* setupClaimsRealtimeSubscription: the channel is replaced by a new one and
\* startClaimsPolling restarts the poll.
SetupClaimsRealtimeSubscription(lv) ==
    [lv EXCEPT !.claimsSub = TRUE, !.claimsPoll = TRUE]

\* viewClaimDocuments(claimId) up to its await: the claim is current, the
\* documents page is shown, loadClaimDocuments has sent its first query.
LiveViewClaimDocuments(c) ==
    /\ car.open
    /\ live.page = "claims"
    /\ live.viewLoading = NoClaim
    /\ c \in car.listed
    /\ car' = [car EXCEPT !.currentClaim = c]
    /\ live' = [live EXCEPT !.page = "documents", !.viewLoading = c]
    /\ out' = Quiet
    /\ UNCHANGED << claims, documents, ins, browser, probe, controls, peers >>

\* viewClaimDocuments from its await on: loadClaimDocuments(claimId) settles
\* (on success it sets currentClaim to the claim it fetched), then
\* setupDocumentsRealtimeSubscription runs.
LiveClaimDocumentsLoaded(O) ==
    /\ car.open
    /\ live.viewLoading # NoClaim
    /\ \E rClaim \in Caught(O) : \E rDocs \in Called(rClaim = "ok", Caught(O)) :
          LET r == CarLoadClaimDocumentsRun(car, claims, documents,
                                            live.viewLoading, rClaim, rDocs)
          IN  /\ car' = r.car
              /\ out' = r.out
              /\ live' = SetupDocumentsRealtimeSubscription(
                             [live EXCEPT !.viewLoading = NoClaim],
                             r.car.currentClaim)
    /\ UNCHANGED << claims, documents, ins, browser, probe, controls, peers >>

\* showClaimsPage: Back on the documents page.  The documents channel is
\* removed and its poll stopped, the claims poll started if there is none; the
\* debounce timers are left as they are.
LiveShowClaimsPage ==
    /\ car.open
    /\ live.page = "documents"
    /\ car' = CarShowClaimsPageRun(car)
    /\ live' = [live EXCEPT !.page = "claims", !.docSub = FALSE,
                            !.docPoll = FALSE, !.claimsPoll = TRUE]
    /\ out' = Quiet
    /\ UNCHANGED << claims, documents, ins, browser, probe, controls, peers >>

\* A change event arrives on a subscribed channel: clearTimeout of the handle
\* the variable holds, if it holds one, and a new timer of 450 ms, whose
\* handle the variable now holds.
Subscribed(lv, ch) == IF ch = "claims" THEN lv.claimsSub ELSE lv.docSub
RealtimeEvent(ch) ==
    /\ car.open
    /\ Subscribed(live, ch)
    /\ live.armed < MaxTimers
    /\ LET t == live.armed + 1
       IN  live' = [live EXCEPT !.armed = t,
                                !.handle[ch] = t,
                                !.pending[ch] = (@ \ {live.handle[ch]}) \cup {t}]
    /\ UNCHANGED << review, browser, probe, controls, peers >>

\* A debounce timer fires: its callback starts the reload and awaits it.  The
\* documents callback passes the claim that is current now.
TimerFires(ch, t) ==
    /\ car.open
    /\ t \in live.pending[ch]
    /\ live' = [live EXCEPT !.pending[ch] = @ \ {t},
                            !.running[ch] = @ \cup
                                {[t |-> t, claim |-> IF ch = "documents"
                                                     THEN car.currentClaim
                                                     ELSE NoClaim]}]
    /\ UNCHANGED << review, browser, probe, controls, peers >>

\* Every call of a loadClaims run succeeds.
AllOk == [c \in Claims |-> "ok"]

\* The reload of a timer's callback settles: loadClaims for the claims
\* channel; loadClaimDocuments of the claim passed (a query for no claim
\* returns an error) and then loadClaims for the documents channel.  A
\* loadClaims that displays the table sets the claims channel up again.  In
\* its finally the callback sets the channel's handle variable to null.
ReloadDone(ch, run) ==
    /\ car.open
    /\ run \in live.running[ch]
    /\ LET d == IF ch = "claims" THEN [car |-> car, out |-> Quiet]
                ELSE IF run.claim = NoClaim THEN [car |-> car, out |-> Toast("error")]
                ELSE CarLoadClaimDocumentsRun(car, claims, documents, run.claim,
                                              "ok", "ok")
           r == CarLoadClaimsRun(claims, documents, d.car.listed,
                                 "ok", AllOk, "ok", "ok")
           lv == [live EXCEPT !.running[ch] = @ \ {run},
                              !.handle[ch] = NoTimer]
       IN  /\ claims' = r.claims
           /\ car' = [d.car EXCEPT !.listed = r.listed]
           /\ out' = r.out
           /\ live' = SetupClaimsRealtimeSubscription(lv)
    /\ UNCHANGED << documents, ins, browser, probe, controls, peers >>

\* The car-company portal once initializeApp has displayed the claims table.
InitLiveSpec ==
    /\ LET r == CarLoadClaimsRun([c \in Claims |-> InitClaim],
                                 [d \in Docs |-> InitDoc("lto_or")], {},
                                 "ok", AllOk, "ok", "ok")
       IN  /\ claims = r.claims
           /\ car = [InitPortal EXCEPT !.listed = r.listed]
    /\ documents = [d \in Docs |-> InitDoc("lto_or")]
    /\ ins = Closed(InsInitPortal)
    /\ out = Quiet
    /\ browser = PortalTab("car_company", "/car-company/")
    /\ probe = NoProbe
    /\ live = InitLive
    /\ controls = InitControls
    /\ peers = NoPeers

LiveNext ==
    \/ \E c \in Claims : LiveViewClaimDocuments(c)
    \/ LiveClaimDocumentsLoaded(Outcomes)
    \/ LiveShowClaimsPage
    \/ \E ch \in Channels : RealtimeEvent(ch)
    \/ \E ch \in Channels : \E t \in Timers : TimerFires(ch, t)
    \/ \E ch \in Channels : \E t \in Timers : \E c \in Claims \cup {NoClaim} :
          ReloadDone(ch, [t |-> t, claim |-> c])

\* The car-company portal's page changes, realtime events and debounce
\* timers, interleaved in every order.
SpecLive == InitLiveSpec /\ [][LiveNext]_vars

\* ============================================== handlers and their controls ===
\* The handlers that issue a backend mutation, each split at its await: one
\* action up to the call, one for the call settling.  browser.loading is the
\* submit button's 'disabled' on the login page (loginSubmit) and on the
\* signup page (signupSubmit).

\* A handler takes up its call, and a call of it settles.
Started(h) == [controls EXCEPT !.outstanding[h] = @ + 1]
Settled(h) == [controls EXCEPT !.outstanding[h] = @ - 1]
CanStart(h) == controls.outstanding[h] < MaxOverlap

\* handleLogin up to its await: the form is submitted with both fields
\* filled, by the submit button or by Enter, neither of which works while the
\* button is disabled.  setLoading(true).
LoginSubmitted ==
    /\ browser.location = "/"
    /\ browser.step = "ready"
    /\ ~browser.loading
    /\ CanStart("handleLogin")
    /\ browser' = [browser EXCEPT !.loading = TRUE, !.message = "signing_in"]
    /\ controls' = Started("handleLogin")
    /\ UNCHANGED << review, probe, live, peers >>

\* handleLogin from its await on: signInWithPassword settles.  On an error
\* the message and setLoading(false); otherwise redirectForUser, which leaves
\* the page or, without a role, shows its message and calls setLoading(false).
LoginSettled(O) ==
    /\ browser.location = "/"
    /\ controls.outstanding["handleLogin"] > 0
    /\ \E rSignIn \in O :
          IF rSignIn # "ok"
          THEN /\ browser' = [browser EXCEPT !.message = "sign_in_failed",
                                             !.loading = FALSE]
               /\ controls' = Settled("handleLogin")
          ELSE /\ browser' = RedirectForUser([browser EXCEPT !.session = TRUE],
                                             FALSE, "login")
               /\ controls' = IF browser.role = "null" THEN Settled("handleLogin")
                              ELSE InitControls
    /\ UNCHANGED << review, probe, live, peers >>

\* handlePasswordReset up to its await: a click on forgotPasswordLink with
\* the email filled.  setLoading(true) disables the submit button; the link
\* is an anchor and has no disabled state.
PasswordResetClicked ==
    /\ browser.location = "/"
    /\ browser.step = "ready"
    /\ CanStart("handlePasswordReset")
    /\ browser' = [browser EXCEPT !.loading = TRUE, !.message = "sending_reset"]
    /\ controls' = Started("handlePasswordReset")
    /\ UNCHANGED << review, probe, live, peers >>

\* handlePasswordReset from its await on: a message, and in its finally
\* setLoading(false).
PasswordResetSettled(O) ==
    /\ browser.location = "/"
    /\ controls.outstanding["handlePasswordReset"] > 0
    /\ \E rReset \in O :
          browser' = [browser EXCEPT !.loading = FALSE,
                         !.message = IF rReset = "ok" THEN "reset_sent"
                                     ELSE "reset_failed"]
    /\ controls' = Settled("handlePasswordReset")
    /\ UNCHANGED << review, probe, live, peers >>

\* handleSignup up to its await: the form is submitted with a valid payload.
SignupSubmitted ==
    /\ browser.location = "/admin-signup/"
    /\ browser.step = "ready"
    /\ ~browser.loading
    /\ CanStart("handleSignup")
    /\ browser' = [browser EXCEPT !.loading = TRUE, !.message = "creating"]
    /\ controls' = Started("handleSignup")
    /\ UNCHANGED << review, probe, live, peers >>

\* handleSignup from its await on: a message, and in its finally
\* setLoading(false).
SignupSettled(O) ==
    /\ browser.location = "/admin-signup/"
    /\ controls.outstanding["handleSignup"] > 0
    /\ \E rSignUp \in O :
          browser' = [browser EXCEPT !.loading = FALSE,
                         !.message = IF rSignUp = "ok" THEN "account_created"
                                     ELSE "signup_failed"]
    /\ controls' = Settled("handleSignup")
    /\ UNCHANGED << review, probe, live, peers >>

\* The car-company portal with a claim's document open in the viewer.
InPortal == browser.location = "/car-company/" /\ browser.app = "car_company"

\* handleDocumentDecision('verify') up to its await: a click on verifyDocBtn,
\* which stays enabled.
VerifyClicked ==
    /\ InPortal
    /\ CanStart("handleDocumentDecision")
    /\ controls' = Started("handleDocumentDecision")
    /\ UNCHANGED << review, browser, probe, live, peers >>

\* openDocumentRejectionPane: a click on rejectDocBtn.
OpenDocumentRejectionPane ==
    /\ InPortal
    /\ ~controls.rejectionPane
    /\ controls' = [controls EXCEPT !.rejectionPane = TRUE]
    /\ UNCHANGED << review, browser, probe, live, peers >>

\* confirmDocumentRejection up to its await: with a reason chosen the pane
\* is closed and the update sent.
DocumentRejectionConfirmed ==
    /\ InPortal
    /\ controls.rejectionPane
    /\ CanStart("confirmDocumentRejection")
    /\ controls' = [Started("confirmDocumentRejection")
                       EXCEPT !.rejectionPane = FALSE]
    /\ UNCHANGED << review, browser, probe, live, peers >>

\* openApprovalConfirm and openRejectionModal: a click on approveClaimBtn or
\* rejectClaimBtn, which setDecisionButtonsState disables by the claim's and
\* the documents' state only.
OpenDecisionModal(which) ==
    /\ InPortal
    /\ controls.confirmModal = "none"
    /\ controls' = [controls EXCEPT !.confirmModal = which]
    /\ UNCHANGED << review, browser, probe, live, peers >>

\* The modal's confirm button: the modal is closed and decideClaim awaited.
DecisionHandler(which) ==
    IF which = "approve" THEN "approveClaim" ELSE "rejectClaim"
DecisionConfirmed(which) ==
    /\ InPortal
    /\ controls.confirmModal = which
    /\ CanStart(DecisionHandler(which))
    /\ controls' = [Started(DecisionHandler(which)) EXCEPT !.confirmModal = "none"]
    /\ UNCHANGED << review, browser, probe, live, peers >>

\* A portal handler's call settles, successfully or not: its notification is
\* shown and no control changes.
PortalHandlers ==
    { "handleDocumentDecision", "confirmDocumentRejection",
      "approveClaim", "rejectClaim" }
PortalCallSettled(h) ==
    /\ InPortal
    /\ controls.outstanding[h] > 0
    /\ controls' = [Settled(h) EXCEPT !.notice = h]
    /\ UNCHANGED << review, browser, probe, live, peers >>

\* The login page or the signup page with its script run, with no session.
ReadyPage(role, path) ==
    [ NewPage([role |-> role, session |-> FALSE, justLoggedOut |-> FALSE],
              path, "visit")
      EXCEPT !.step = "ready", !.listening = (path = "/"), !.client = TRUE,
             !.wired = TRUE, !.configRequests = 1, !.queried = (path = "/") ]

InitControlsSpec ==
    /\ ReviewAtRest
    /\ \E role \in {"null", "car_company"} :
       \E path \in {"/", "/admin-signup/"} :
          browser = ReadyPage(role, path)
    /\ probe = NoProbe
    /\ live = InitLive
    /\ controls = InitControls
    /\ peers = NoPeers

ControlsNext ==
    \/ LoginSubmitted
    \/ LoginSettled(Outcomes)
    \/ PasswordResetClicked
    \/ PasswordResetSettled(Outcomes)
    \/ SignupSubmitted
    \/ SignupSettled(Outcomes)
    \/ BootstrapPortal({"ok"})
    \/ VerifyClicked
    \/ OpenDocumentRejectionPane
    \/ DocumentRejectionConfirmed
    \/ \E which \in {"approve", "reject"} : OpenDecisionModal(which)
    \/ \E which \in {"approve", "reject"} : DecisionConfirmed(which)
    \/ \E h \in PortalHandlers : PortalCallSettled(h)

\* The mutating handlers of the login page, the signup page and the
\* car-company portal a login leads to, their calls settling in any order.
SpecControls == InitControlsSpec /\ [][ControlsNext]_vars

\* ============================================= aggregate counts of a list row ===
\* The rows the two portals' loadClaims compute for one claim, as functions of
\* the claim's documents as fetched.

\* The documents a claim can come with: any type, and on either track any
\* combination of the verified flag and a note.
MaxRowDocs == 2
NoteCases == { Null, << "r" >> }
DocCases ==
    { Merge(InitDoc(t), [ verified_by_car_company |-> vc,
                          car_company_verification_notes |-> nc,
                          verified_by_insurance_company |-> vi,
                          insurance_verification_notes |-> ni ]) :
        t \in DocTypes, vc \in BOOLEAN, nc \in NoteCases,
        vi \in BOOLEAN, ni \in NoteCases }
DocLists == UNION { [1..n -> DocCases] : n \in 0..MaxRowDocs }

\* A JS string or null used as a condition.
Truthy(text) == Len(text) > 0

\* A row not computed yet, and a claim the list leaves out.
NoRow == [ done |-> FALSE, listed |-> FALSE,
           total |-> 0, verified |-> 0, rejected |-> 0, pending |-> 0 ]
LeftOut == [NoRow EXCEPT !.done = TRUE]
Row(total, verified, rejected) ==
    [ done |-> TRUE, listed |-> TRUE, total |-> total, verified |-> verified,
      rejected |-> rejected, pending |-> total - verified - rejected ]

\* Car-company loadClaims, processedClaims: every claim fetched gets a row.
CarProcessedClaim(docs) ==
    LET carCompanyDocs ==
            SelectSeq(docs, LAMBDA doc : doc.type \in CAR_COMPANY_DOCUMENT_TYPES)
        verifiedCarDocs ==
            SelectSeq(carCompanyDocs, LAMBDA doc : doc.verified_by_car_company)
        rejectedCarDocs ==
            SelectSeq(carCompanyDocs, LAMBDA doc :
                ~doc.verified_by_car_company
                    /\ Truthy(doc.car_company_verification_notes))
    IN  Row(Len(carCompanyDocs), Len(verifiedCarDocs), Len(rejectedCarDocs))

\* Insurance loadClaims, eligibleClaims: the claims with a document of the
\* insurance portal's car-company types, all of them verified by the car
\* company.
InsEligibleClaim(docs) ==
    LET carCompanyDocs ==
            SelectSeq(docs, LAMBDA doc : doc.type \in INS_CAR_COMPANY_DOCUMENT_TYPES)
    IN  /\ Len(carCompanyDocs) # 0
        /\ \A i \in 1..Len(carCompanyDocs) : carCompanyDocs[i].verified_by_car_company

\* Insurance loadClaims, processedClaims: the row of an eligible claim.
InsProcessedClaim(docs) ==
    LET insuranceDocs == InsuranceDocuments(docs)
        verifiedInsuranceDocs ==
            SelectSeq(insuranceDocs, LAMBDA doc : doc.verified_by_insurance_company)
        rejectedInsuranceDocs ==
            SelectSeq(insuranceDocs, LAMBDA doc :
                Truthy(doc.insurance_verification_notes))
    IN  IF InsEligibleClaim(docs)
        THEN Row(Len(insuranceDocs), Len(verifiedInsuranceDocs),
                 Len(rejectedInsuranceDocs))
        ELSE LeftOut

\* One portal's loadClaims computes the claim's row.
CarRowComputed ==
    /\ "docs" \in DOMAIN probe
    /\ ~probe.car.done
    /\ probe' = [probe EXCEPT !.car = CarProcessedClaim(probe.docs)]
    /\ UNCHANGED << review, browser, live, controls, peers >>
InsRowComputed ==
    /\ "docs" \in DOMAIN probe
    /\ ~probe.ins.done
    /\ probe' = [probe EXCEPT !.ins = InsProcessedClaim(probe.docs)]
    /\ UNCHANGED << review, browser, live, controls, peers >>

\* Every claim of up to MaxRowDocs documents, fetched by neither portal yet.
InitCounts ==
    /\ ReviewAtRest
    /\ browser = PortalTab("car_company", "/car-company/")
    /\ live = InitLive /\ controls = InitControls /\ peers = NoPeers
    /\ \E docs \in DocLists :
          probe = [fn |-> "counts", docs |-> docs, car |-> NoRow, ins |-> NoRow]

CountsNext == CarRowComputed \/ InsRowComputed

SpecCounts == InitCounts /\ [][CountsNext]_vars

\* ===================================== car-company reviewers working at once ===
\* Several car-company reviewers, each in a browser of their own, on the same
\* backend.  A handler runs from one await to the next in one action, so the
\* reviewers' backend calls interleave as the network lets them.  Every call
\* succeeds.

NumReviewers == 2
Reviewers == 1..NumReviewers

\* A reviewer on the claims list with no loadClaims in flight.
\*   pc        "list"; "claim": the documents page of `claim`; "guard":
\*             handleDocumentDecision in its 500 ms wait before the safety
\*             guard; "clearing": confirmDocumentRejection between the
\*             document update and the claim update
\*   verified  currentDocuments: the verified flag of each local copy
\*   viewOnly  currentClaimApproved
\*   approveDisabled  approveClaimBtn.disabled as set when the claim was loaded
\*   load      the reviewer's loadClaims: "idle", or "selected" once the
\*             migration query has returned, or "fetched" once the list
\*             query has returned
\*   updates   the migration updates computed from the selected rows
\*   toRevert  claimsToRevert computed from the fetched rows
PeerAtList ==
    [ pc |-> "list", claim |-> NoClaim, verified |-> << >>, viewOnly |-> FALSE,
      approveDisabled |-> FALSE, load |-> "idle", updates |-> << >>,
      toRevert |-> {} ]

\* The car-company documents of a claim.
CarDocsOf(dc, c) == {d \in DocsOf(c) : dc[d].type \in CAR_COMPANY_DOCUMENT_TYPES}

\* currentDocuments.length > 0 && currentDocuments.every(verified)
PeerAllVerified(p) ==
    DOMAIN p.verified # {} /\ \A d \in DOMAIN p.verified : p.verified[d]

\* viewClaimDocuments(c): loadClaimDocuments fetches the claim and its
\* documents, and setDecisionButtonsState sets the Approve button.
PeerViewClaimDocuments(r, c) ==
    /\ peers[r].pc = "list"
    /\ LET local == [d \in CarDocsOf(documents, c) |->
                        documents[d].verified_by_car_company]
           flag == claims[c].is_approved_by_car_company
       IN  peers' = [peers EXCEPT ![r] =
               [@ EXCEPT !.pc = "claim", !.claim = c, !.verified = local,
                         !.viewOnly = claims[c].car_company_status
                                          \in {"approved", "rejected"},
                         !.approveDisabled =
                             ~(local # << >> /\ \A d \in DOMAIN local : local[d])
                                \/ flag]]
    /\ UNCHANGED << review, browser, probe, live, controls >>

\* showClaimsPage
PeerShowClaimsPage(r) ==
    /\ peers[r].pc = "claim"
    /\ peers' = [peers EXCEPT ![r] =
           [@ EXCEPT !.pc = "list", !.claim = NoClaim, !.verified = << >>,
                     !.viewOnly = FALSE, !.approveDisabled = FALSE]]
    /\ UNCHANGED << review, browser, probe, live, controls >>

\* handleDocumentDecision('verify') up to its 500 ms wait: the document is
\* updated, the local copy with it.
PeerVerify(r, d) ==
    /\ peers[r].pc = "claim"
    /\ ~peers[r].viewOnly
    /\ d \in DOMAIN peers[r].verified
    /\ documents' = UpdateDoc(documents, d, CarVerifyUpdate(TRUE, Null))
    /\ peers' = [peers EXCEPT ![r] =
           [@ EXCEPT !.pc = "guard", !.verified[d] = TRUE]]
    /\ UNCHANGED << claims, car, ins, out, browser, probe, live, controls >>

\* handleDocumentDecision from the wait on: the safety guard reads the claim
\* row and puts it back to pending; setDecisionButtonsState on the fresh row.
PeerSafetyGuard(r) ==
    /\ peers[r].pc = "guard"
    /\ claims' = CarSafetyGuard(claims, peers[r].claim,
                                PeerAllVerified(peers[r]), "ok", "ok")
    /\ peers' = [peers EXCEPT ![r] =
           [@ EXCEPT !.pc = "claim",
                     !.approveDisabled =
                         ~PeerAllVerified(peers[r])
                            \/ claims'[peers[r].claim].is_approved_by_car_company]]
    /\ UNCHANGED << documents, car, ins, out, browser, probe, live, controls >>

\* confirmDocumentRejection up to its second await: the document is updated
\* with the reason, the local copy with it.
PeerRejectDocument(r, d) ==
    /\ peers[r].pc = "claim"
    /\ ~peers[r].viewOnly
    /\ d \in DOMAIN peers[r].verified
    /\ documents' = UpdateDoc(documents, d, CarRejectUpdate(<< "r" >>))
    /\ peers' = [peers EXCEPT ![r] =
           [@ EXCEPT !.pc = "clearing", !.verified[d] = FALSE]]
    /\ UNCHANGED << claims, car, ins, out, browser, probe, live, controls >>

\* confirmDocumentRejection from its second await on: the claim's approval
\* flag and date are cleared.
PeerClearApproval(r) ==
    /\ peers[r].pc = "clearing"
    /\ claims' = UpdateClaim(claims, peers[r].claim, CarClearApproval)
    /\ peers' = [peers EXCEPT ![r] =
           [@ EXCEPT !.pc = "claim", !.approveDisabled = TRUE]]
    /\ UNCHANGED << documents, car, ins, out, browser, probe, live, controls >>

\* Approve, confirmed: decideClaim('approved') updates the claim, and the
\* reviewer is taken back to the list.
PeerApproveClaim(r) ==
    /\ peers[r].pc = "claim"
    /\ ~peers[r].viewOnly
    /\ ~peers[r].approveDisabled
    /\ claims' = UpdateClaim(claims, peers[r].claim,
                             CarDecisionUpdate("approved", Null))
    /\ peers' = [peers EXCEPT ![r] =
           [@ EXCEPT !.pc = "list", !.claim = NoClaim, !.verified = << >>,
                     !.viewOnly = FALSE, !.approveDisabled = FALSE]]
    /\ UNCHANGED << documents, car, ins, out, browser, probe, live, controls >>

\* loadClaims (a poll, a realtime reload, or the list being shown) up to the
\* migration query's return: the status each selected row is to be given.
PeerLoadSelected(r) ==
    /\ peers[r].load = "idle"
    /\ peers' = [peers EXCEPT ![r] =
           [@ EXCEPT !.load = "selected",
                     !.updates = [c \in CarClaimsToMigrate(claims) |->
                                     CarMigratedStatus(claims[c])]]]
    /\ UNCHANGED << review, browser, probe, live, controls >>

\* loadClaims from there to the list query's return: the migration updates
\* are written, the claims fetched with their documents, and claimsToRevert
\* computed from what was fetched.
PeerLoadFetched(r) ==
    /\ peers[r].load = "selected"
    /\ claims' = [c \in Claims |->
                     IF c \in DOMAIN peers[r].updates
                     THEN Merge(claims[c],
                                [car_company_status |-> peers[r].updates[c]])
                     ELSE claims[c]]
    /\ peers' = [peers EXCEPT ![r] =
           [@ EXCEPT !.load = "fetched", !.updates = << >>,
                     !.toRevert = ClaimsToRevert(claims', documents)]]
    /\ UNCHANGED << documents, car, ins, out, browser, probe, live, controls >>

\* loadClaims to its end: the claims of claimsToRevert are put back to
\* pending, and the table is displayed.
PeerLoadSwept(r) ==
    /\ peers[r].load = "fetched"
    /\ claims' = CarRevert(claims, peers[r].toRevert)
    /\ peers' = [peers EXCEPT ![r] = [@ EXCEPT !.load = "idle", !.toRevert = {}]]
    /\ UNCHANGED << documents, car, ins, out, browser, probe, live, controls >>

\* The reviewers on their claims lists, the claims migrated to 'pending' by
\* a first load; the insurance reviewer may have put a claim on hold.
InitPeers ==
    /\ \E status \in {"submitted", "under_review"} :
          claims = [c \in Claims |->
                       Merge(InitClaim, [status |-> status,
                                         car_company_status |-> "pending"])]
    /\ documents = [d \in Docs |-> InitDoc("lto_or")]
    /\ car = Closed(InitPortal)
    /\ ins = Closed(InsInitPortal)
    /\ out = Quiet
    /\ browser = PortalTab("car_company", "/car-company/")
    /\ probe = NoProbe /\ live = InitLive /\ controls = InitControls
    /\ peers = [r \in Reviewers |-> PeerAtList]

PeersNext ==
    \E r \in Reviewers :
        \/ \E c \in Claims : PeerViewClaimDocuments(r, c)
        \/ PeerShowClaimsPage(r)
        \/ \E d \in Docs : PeerVerify(r, d)
        \/ PeerSafetyGuard(r)
        \/ \E d \in Docs : PeerRejectDocument(r, d)
        \/ PeerClearApproval(r)
        \/ PeerApproveClaim(r)
        \/ PeerLoadSelected(r)
        \/ PeerLoadFetched(r)
        \/ PeerLoadSwept(r)

SpecPeers == InitPeers /\ [][PeersNext]_vars

\* ============================================= the signup form's payload ===

\* 'password.length < 8' in validatePayload
MinPasswordLength == 8

\* A string of n characters ch.
Repeat(ch, n) == [i \in 1..n |-> ch]

\* The values of the form's fields: an email that is empty, blank or filled;
\* passwords that are empty, one character short, of the least length, and a
\* different one of the least length; no role selected, or one of the
\* select's three values.
EmailCases == {<< >>, << " " >>, << "a", "@", "b" >>}
PasswordCases ==
    {Repeat("a", n) : n \in {0, MinPasswordLength - 1, MinPasswordLength}}
        \cup {Repeat("b", MinPasswordLength)}
SelectionCases ==
    {<< >>, W_admin, W_car \o << "-" >> \o W_company,
     W_insurance \o << "-" >> \o W_company}

\* validatePayload(email, password, confirmPassword, role): the message it
\* shows, "valid" when it returns true.  role is a role name, "null" for none.
validatePayload(email, password, confirmPassword, role) ==
    IF email = << >> THEN "enter_email"
    ELSE IF password = << >> \/ Len(password) < MinPasswordLength
    THEN "password_too_short"
    ELSE IF password # confirmPassword THEN "passwords_do_not_match"
    ELSE IF role = "null" THEN "select_role"
    ELSE "valid"

\* handleSignup up to its await: the fields are read, the email trimmed, the
\* selection normalised and its dbRole given to validatePayload; a refusal
\* returns, otherwise the button is disabled and, the client being there,
\* signUp is called with the dbRole.
HandleSignup ==
    /\ probe.fn = "none"
    /\ "selection" \in DOMAIN probe
    /\ browser.location = "/admin-signup/"
    /\ browser.wired
    /\ LET email == Trim(probe.email)
           dbRole == normalizeSelection(probe.selection)
           verdict == validatePayload(email, probe.password,
                                      probe.confirmPassword, dbRole)
       IN  probe' = [probe EXCEPT
                        !.fn = "handleSignup",
                        !.message = IF verdict = "valid" THEN "creating"
                                    ELSE verdict,
                        !.disabled = (verdict = "valid"),
                        !.signUp = IF verdict = "valid" THEN dbRole ELSE "none"]
    /\ UNCHANGED << review, browser, live, controls, peers >>

\* handleSignup from its await on: a message, and setLoading(false) in its
\* finally.
HandleSignupSettled(O) ==
    /\ probe.fn = "handleSignup"
    /\ probe.disabled
    /\ \E rSignUp \in O :
          probe' = [probe EXCEPT
                       !.fn = "settled",
                       !.message = IF rSignUp = "ok" THEN "account_created"
                                   ELSE "signup_failed",
                       !.disabled = FALSE]
    /\ UNCHANGED << review, browser, live, controls, peers >>

\* The signup page with its script run and the form filled in.
\*   signUp   the role signUp was called with, "none" without a call
InitSignup ==
    /\ ReviewAtRest
    /\ browser = ReadyPage("admin", "/admin-signup/")
    /\ live = InitLive /\ controls = InitControls /\ peers = NoPeers
    /\ \E email \in EmailCases, password, confirmPassword \in PasswordCases,
          selection \in SelectionCases :
          probe = [ fn |-> "none", email |-> email, password |-> password,
                    confirmPassword |-> confirmPassword, selection |-> selection,
                    message |-> "none", disabled |-> FALSE, signUp |-> "none" ]

SignupNext == HandleSignup \/ HandleSignupSettled(Outcomes)

SpecSignup == InitSignup /\ [][SignupNext]_vars

\* ================================== a signed-in user sent from page to page ===

\* The users followed from page to page: each metadata field is empty or
\* holds a car-company or an admin role, each table has no row or a row with
\* an insurance-company role.
R_admin == W_admin
RouteUsers ==
    [ meta : [1..Len(MetaFields) -> {R_none, R_car, R_admin}],
      tables : [1..Len(LoginTables) ->
                   {[r |-> "ok", value |-> v] : v \in {R_none, R_insurance}}] ]

\* handleLogin with the credentials of a user: signInWithPassword succeeds
\* and redirectForUser is called with the role the login page's
\* resolveUserRole returns.  The user's metadata and rows stay as they are,
\* so each resolver returns the same role every time it is called: login is
\* what the login page's returns, portal what a portal's returns.
RouteHandleLogin(user) ==
    /\ probe = NoProbe
    /\ browser.location = "/"
    /\ browser.wired
    /\ ~browser.session
    /\ LET role == resolveUserRole(user).role
       IN  browser' = RedirectForUser([browser EXCEPT !.session = TRUE,
                                                      !.loading = TRUE,
                                                      !.message = "signing_in",
                                                      !.role = role],
                                      FALSE, "login")
    /\ probe' = [fn |-> "route", user |-> user,
                 login |-> resolveUserRole(user).role,
                 portal |-> PortalResolveUserRole(user).role]
    /\ UNCHANGED << review, live, controls, peers >>

\* checkExistingSession of the login page finds the session and calls
\* redirectForUser with the role the login page's resolveUserRole returns.
RouteSessionRestored ==
    /\ probe.fn = "route"
    /\ browser.location = "/"
    /\ browser.step = "session"
    /\ LET role == probe.login
       IN  browser' = RedirectForUser([Listening(browser) EXCEPT !.role = role],
                                      TRUE, "restore")
    /\ UNCHANGED << review, probe, live, controls, peers >>

\* bootstrapPortal of the portal the tab was sent to, with the role the
\* portal's own resolveUserRole returns.
RouteBootstrapPortal ==
    /\ probe.fn = "route"
    /\ browser.location \in {"/car-company/", "/insurance-company/"}
    /\ browser.step = "load"
    /\ LET role == probe.portal
       IN  browser' = BootstrapPortalRun([browser EXCEPT !.role = role], role,
                                         "ok", "ok")
    /\ UNCHANGED << review, probe, live, controls, peers >>

\* The login page with its script run and nobody signed in.
InitRoute ==
    /\ ReviewAtRest
    /\ browser = ReadyPage("null", "/")
    /\ probe = NoProbe
    /\ live = InitLive /\ controls = InitControls /\ peers = NoPeers

RouteNext ==
    \/ \E user \in RouteUsers : RouteHandleLogin(user)
    \/ Bootstrap
    \/ ConfigLoaded({"ok"})
    \/ RouteSessionRestored
    \/ RouteBootstrapPortal
    \/ SignupInit({"ok"})

\* The tab of a user who signs in, left to the pages' scripts, every call
\* succeeding: the browser runs each page's script to its end.
SpecRoute == InitRoute /\ [][RouteNext]_vars /\ WF_vars(RouteNext)

\* ====================================== reloads after the list's own writes ===

\* The change events in flight that are counted.
MaxEcho == 2

\* The rows of the claims table one loadClaims run updates when every call
\* succeeds: one update per row the migration selected, whatever status it
\* computed, and the rows of the sweep's update.  Each updated row is a change
\* event of the claims table.
CarLoadClaimsChanges(cl, dc) ==
    Cardinality(CarClaimsToMigrate(cl))
    + Cardinality(ClaimsToRevert(CarMigrate(cl, "ok", AllOk), dc))

\* No row of the list needs migrating or reverting: every row the migration
\* selects holds the status the migration computes, and no approved claim has
\* an unverified document.
CarListSettled(cl, dc) ==
    /\ \A c \in CarClaimsToMigrate(cl) :
          cl[c].car_company_status = CarMigratedStatus(cl[c])
    /\ ClaimsToRevert(cl, dc) = {}

\* The timers the debounce can arm: those neither armed nor running.
FreeTimers(lv) ==
    Timers \ (lv.pending["claims"] \cup {run.t : run \in lv.running["claims"]})

\* A change event of the claims table reaches the subscription's callback:
\* clearTimeout of the handle the variable holds, and a new timer of 450 ms.
EchoDelivered ==
    /\ car.open
    /\ live.claimsSub
    /\ live.echo > 0
    /\ FreeTimers(live) # {}
    /\ LET t == Min(FreeTimers(live))
       IN  live' = [live EXCEPT !.echo = @ - 1,
                                !.handle["claims"] = t,
                                !.pending["claims"] =
                                    (@ \ {live.handle["claims"]}) \cup {t}]
    /\ UNCHANGED << review, browser, probe, controls, peers >>

\* The reload of a claims timer's callback settles: loadClaims has run and
\* displayed the table, and each row it updated is a change event of the
\* table the list is subscribed to.  In its finally the callback sets the
\* handle variable to null.
EchoReloadDone(t) ==
    LET run == [t |-> t, claim |-> NoClaim]
        n == CarLoadClaimsChanges(claims, documents)
        r == CarLoadClaimsRun(claims, documents, car.listed,
                              "ok", AllOk, "ok", "ok")
    IN  /\ car.open
        /\ run \in live.running["claims"]
        /\ live.echo + n <= MaxEcho
        /\ claims' = r.claims
        /\ car' = [car EXCEPT !.listed = r.listed]
        /\ out' = r.out
        /\ live' = SetupClaimsRealtimeSubscription(
                       [live EXCEPT !.running["claims"] = @ \ {run},
                                    !.handle["claims"] = NoTimer,
                                    !.echo = @ + n])
        /\ UNCHANGED << documents, ins, browser, probe, controls, peers >>

\* The rows a change of the table can leave: a row from before the
\* car_company_status column was filled, a pending, approved or rejected one.
EchoRows ==
    { [car_company_status |-> "null", is_approved_by_car_company |-> FALSE],
      [car_company_status |-> "null", is_approved_by_car_company |-> TRUE],
      [car_company_status |-> "pending", is_approved_by_car_company |-> FALSE],
      [car_company_status |-> "approved", is_approved_by_car_company |-> TRUE],
      [car_company_status |-> "rejected", is_approved_by_car_company |-> FALSE] }

\* The list is displayed and subscribed, and one change event of the claims
\* table is on its way to it.
InitEcho ==
    /\ \E rows \in [Claims -> EchoRows] :
          claims = [c \in Claims |-> Merge(InitClaim, rows[c])]
    /\ \E verified \in [Docs -> BOOLEAN] :
          documents = [d \in Docs |->
                          [InitDoc("lto_or") EXCEPT
                              !.verified_by_car_company = verified[d]]]
    /\ car = [InitPortal EXCEPT !.listed = Claims]
    /\ ins = Closed(InsInitPortal)
    /\ out = Quiet
    /\ browser = PortalTab("car_company", "/car-company/")
    /\ probe = NoProbe
    /\ live = [InitLive EXCEPT !.echo = 1]
    /\ controls = InitControls
    /\ peers = NoPeers

EchoNext ==
    \/ EchoDelivered
    \/ \E t \in Timers : TimerFires("claims", t)
    \/ \E t \in Timers : EchoReloadDone(t)

\* The list on its own: no reviewer acts and no other client changes the
\* data.  The browser delivers every event, fires every timer and lets every
\* reload finish.
SpecEcho == InitEcho /\ [][EchoNext]_vars /\ WF_vars(EchoNext)

\* ========================================================= specifications ===

\* The argument handleDocumentDecision is called with: the Verify button
\* passes 'verify'; the handler treats any other value as unverifying.
Decisions == {"verify", "unverify"}

\* The steps of the car-company portal, its backend calls drawing their
\* outcomes from O and handleDocumentDecision its argument from D.
CarNext(O, D) ==
    \/ CarLoadClaims(O)
    \/ \E c \in Claims : CarViewClaimDocuments(O, c)
    \/ CarReloadDocuments(O)
    \/ \E d \in Docs : CarViewDocument(d)
    \/ \E direction \in {-1, 1} : CarNavigateDocument(direction)
    \/ CarCloseDocumentViewer
    \/ \E decision \in D : CarHandleDocumentDecision(O, decision)
    \/ \E reason \in ReasonOptions, text \in Texts : CarConfirmDocumentRejection(O, reason, text)
    \/ CarApproveClaim(O)
    \/ CarOpenRejectionModal
    \/ CarCloseRejectionModal
    \/ \E text \in Texts : CarConfirmRejection(O, text)
    \/ CarShowClaimsPage
    \/ CarRedirect(O)

InsNext(O, D) ==
    \/ InsLoadClaims(O)
    \/ \E c \in Claims : InsViewClaimDocuments(O, c)
    \/ InsReloadDocuments(O)
    \/ \E d \in Docs : InsViewDocument(d)
    \/ \E direction \in {-1, 1} : InsNavigateDocument(direction)
    \/ InsCloseDocumentViewer
    \/ \E decision \in D : InsHandleDocumentDecision(O, decision)
    \/ \E reason \in ReasonOptions, text \in Texts : InsConfirmDocumentRejection(O, reason, text)
    \/ InsApproveClaim(O)
    \/ InsHoldClaim(O)
    \/ InsOpenRejectionModal
    \/ InsCloseRejectionModal
    \/ \E text \in Texts : InsConfirmRejection(O, text)
    \/ InsShowClaimsPage
    \/ InsRedirect(O)

\* The car-company portal alone, every backend call free to fail.
SpecCar == Init /\ [][CarNext(Outcomes, Decisions)]_vars

\* The car-company portal alone as its controls drive it when nothing fails:
\* every backend call succeeds and handleDocumentDecision is called by the
\* Verify button only.
SpecCarOk == Init /\ [][CarNext({"ok"}, {"verify"})]_vars

\* The backend once the car-company reviewer has loaded the list (the
\* migration gave the claim car_company_status 'pending') and verified every
\* document the car-company portal shows.
ReviewedClaim == Merge(InitClaim, [car_company_status |-> "pending"])
ReviewedDoc(row) ==
    IF row.type \in CAR_COMPANY_DOCUMENT_TYPES
    THEN Merge(row, CarVerifyUpdate(TRUE, Null))
    ELSE row
ReviewedBackend ==
    /\ claims = [c \in Claims |-> ReviewedClaim]
    /\ \E ty \in TypeProfiles :
          documents = [d \in Docs |-> ReviewedDoc(InitDoc(TypeOf(ty, d)))]

\* The insurance portal opened on the reviewed backend.
InitReviewed ==
    /\ ReviewedBackend
    /\ car = Closed(InitPortal)
    /\ ins = InsInitPortal
    /\ out = Quiet
    /\ OthersAtRest

\* The insurance portal alone, every backend call free to fail.
SpecIns == InitReviewed /\ [][InsNext(Outcomes, Decisions)]_vars

\* One reviewer's session: either portal, alone, every backend call free to
\* fail.
Next == CarNext(Outcomes, Decisions) \/ InsNext(Outcomes, Decisions)

Spec == (Init \/ InitReviewed) /\ [][Next]_vars

\* Both portals open at once on the reviewed backend: the insurance reviewer
\* opens, verifies and approves while the car-company reviewer opens the same
\* claim and rejects documents.  Every backend call succeeds.
InitBoth ==
    /\ ReviewedBackend
    /\ car = InitPortal
    /\ ins = InsInitPortal
    /\ out = Quiet
    /\ OthersAtRest

NextBoth ==
    \/ InsLoadClaims({"ok"})
    \/ \E c \in Claims : InsViewClaimDocuments({"ok"}, c)
    \/ InsReloadDocuments({"ok"})
    \/ \E d \in Docs : InsViewDocument(d)
    \/ InsHandleDocumentDecision({"ok"}, "verify")
    \/ InsCloseDocumentViewer
    \/ InsApproveClaim({"ok"})
    \/ InsRedirect({"ok"})
    \/ CarLoadClaims({"ok"})
    \/ \E c \in Claims : CarViewClaimDocuments({"ok"}, c)
    \/ \E d \in Docs : CarViewDocument(d)
    \/ CarConfirmDocumentRejection({"ok"}, "document_expired", Null)

SpecBoth == InitBoth /\ [][NextBoth]_vars

\* The car-company portal opened on claims the claimant has appealed: the
\* rows carry 'appealed', written by the claimant's app, in
\* car_company_status, and the decision that was appealed in status.
AppealedClaim(status) ==
    Merge(InitClaim, [status |-> status, car_company_status |-> "appealed"])
InitAppealed ==
    /\ \E status \in {"submitted", "rejected"} :
          claims = [c \in Claims |-> AppealedClaim(status)]
    /\ \E ty \in TypeProfiles : documents = [d \in Docs |-> InitDoc(TypeOf(ty, d))]
    /\ car = InitPortal
    /\ ins = Closed(InsInitPortal)
    /\ out = Quiet
    /\ OthersAtRest

\* The car-company portal on appealed claims, as its controls drive it when
\* nothing fails.
SpecAppealed == InitAppealed /\ [][CarNext({"ok"}, {"verify"})]_vars

\* ================================================================ claims ===

\* Every document of claim c of the reviewer's type list is verified by that
\* reviewer.
CarDocsVerified(c) ==
    \A d \in DocsOf(c) :
        documents[d].type \in CAR_COMPANY_DOCUMENT_TYPES => documents[d].verified_by_car_company
InsDocsVerified(c) ==
    \A d \in DocsOf(c) :
        documents[d].type \in INSURANCE_DOCUMENT_TYPES => documents[d].verified_by_insurance_company

\* A step in which a portal's approve handler wrote its approval.
CarApproveWritten == CarApproveClaim(Outcomes) /\ out'.toast = "success"
InsApproveWritten == InsApproveClaim(Outcomes) /\ out'.toast = "success"

\* A text that is empty or whitespace only.
Blank(text) == \A i \in 1..Len(text) : text[i] = " "

\* A step in which a portal's claim decision handler ran to the claim update
\* (a rejection confirmed with a blank reason never gets there).
CarDecisionStep ==
    \/ CarApproveClaim(Outcomes)
    \/ \E text \in Texts : ~Blank(text) /\ CarConfirmRejection(Outcomes, text)
InsDecisionStep ==
    \/ InsApproveClaim(Outcomes)
    \/ InsHoldClaim(Outcomes)
    \/ \E text \in Texts : ~Blank(text) /\ InsConfirmRejection(Outcomes, text)

\* The reviewer's decision on the claim is approved or rejected.
CarDecided(row) == row.car_company_status \in {"approved", "rejected"}
InsDecided(row) == row.status \in {"approved", "rejected"}

\* The columns of a document row each portal writes.
CarTrack(row) ==
    << row.verified_by_car_company, row.car_company_verification_date,
       row.car_company_verification_notes, row.car_company_verified_by >>
InsTrack(row) ==
    << row.verified_by_insurance_company, row.insurance_verification_date,
       row.insurance_verification_notes, row.insurance_verified_by >>

\* A list load of the car-company portal: from the poll, a realtime event or
\* the timer of a rejection, or as the redirect after a decision.
CarListLoad(O) == CarLoadClaims(O) \/ CarRedirect(O)

\* The row the sweep leaves.
Reverted(row) ==
    /\ row.car_company_status = "pending"
    /\ row.is_approved_by_car_company = FALSE
    /\ row.car_company_approval_date = "null"

\* C1: in every reachable state a claim's approval flag of a reviewer is true
\* only if every document of the claim whose type is in that reviewer's type
\* list is verified by that reviewer.
C1_FlagOnlyIfAllVerified ==
    \A c \in Claims :
        /\ claims[c].is_approved_by_car_company => CarDocsVerified(c)
        /\ claims[c].is_approved_by_insurance_company => InsDocsVerified(c)

\* C2: an approval is written only when every document of the reviewer's type
\* list is marked verified in the portal's current document list (the Approve
\* control having been disabled again by whatever unverified a document).
C2_ApproveOnlyWhenAllVerified ==
    [][ /\ CarApproveWritten => AllVerified(car.currentDocuments)
        /\ InsApproveWritten => InsAllVerified(ins.currentDocuments) ]_vars

\* C3: the insurance portal writes an approval only if, at the time of the
\* write, the claim has a car-company document and all of them are verified
\* by the car company, also when the car-company reviewer rejects a document
\* after the insurance reviewer opened the claim.
C3_InsuranceApprovalNeedsCarVerification ==
    [][ InsApproveWritten => InsEligible(documents, ins.currentClaim) ]_vars

\* C4: a step that turns a document from verified to unverified on a
\* reviewer's track leaves that reviewer's approval flag false and approval
\* date null on the owning claim.
C4_UnverifyClearsApproval ==
    [][ \A d \in Docs :
          /\ (documents[d].verified_by_car_company /\ ~documents'[d].verified_by_car_company)
                => /\ claims'[ClaimOf(d)].is_approved_by_car_company = FALSE
                   /\ claims'[ClaimOf(d)].car_company_approval_date = "null"
          /\ (documents[d].verified_by_insurance_company
                /\ ~documents'[d].verified_by_insurance_company)
                => /\ claims'[ClaimOf(d)].is_approved_by_insurance_company = FALSE
                   /\ claims'[ClaimOf(d)].insurance_company_approval_date = "null" ]_vars

C6_RejectionNeedsReason ==
    [][ \A text \in Texts :
          /\ CarConfirmRejection(Outcomes, text) =>
                IF Blank(text)
                THEN claims' = claims /\ out'.sent = 0 /\ out'.toast = "invalid"
                ELSE out'.toast = "success" =>
                        /\ claims'[car.currentClaim].car_company_status = "rejected"
                        /\ ~Blank(claims'[car.currentClaim].car_company_approval_notes)
                        /\ claims'[car.currentClaim].car_company_approval_notes
                              = TrimRight(TrimLeft(text))
          /\ InsConfirmRejection(Outcomes, text) =>
                IF Blank(text)
                THEN claims' = claims /\ out'.sent = 0 /\ out'.toast = "invalid"
                ELSE out'.toast = "success" =>
                        /\ claims'[ins.currentClaim].status = "rejected"
                        /\ ~Blank(claims'[ins.currentClaim].insurance_company_approval_notes)
                        /\ claims'[ins.currentClaim].insurance_company_approval_notes
                              = TrimRight(TrimLeft(text)) ]_vars

\* The rejection modal is still open after a confirmation was refused for its
\* blank reason, and no claim has been rejected.
C6_BlankReasonRefused ==
    /\ car.rejectionModal
    /\ out.toast = "invalid"
    /\ out.sent = 0
    /\ \A c \in Claims : claims[c].car_company_status # "rejected"

\* C7: while a claim's decision of a reviewer is approved or rejected, that
\* reviewer's portal writes none of the claim's documents and writes no
\* further decision on the claim.
C7_DecidedClaimIsViewOnly ==
    [][ \A c \in Claims :
          /\ (car.open /\ CarDecided(claims[c])) =>
                /\ \A d \in DocsOf(c) : CarTrack(documents'[d]) = CarTrack(documents[d])
                /\ ~(car.currentClaim = c /\ CarDecisionStep /\ out'.toast = "success")
          /\ (ins.open /\ InsDecided(claims[c])) =>
                /\ \A d \in DocsOf(c) : InsTrack(documents'[d]) = InsTrack(documents[d])
                /\ ~(ins.currentClaim = c /\ InsDecisionStep /\ out'.toast = "success") ]_vars

C9_OneNotificationPerAppliedDecision ==
    [][ \A rUpd \in Caught(Outcomes) :
          /\ LET r == CarDecideClaimRun(car, claims, "approved", Null, "ok", rUpd)
             IN  (CarApproveClaim(Outcomes) /\ claims' = r.claims /\ car' = r.car
                    /\ out' = r.out)
                   => out'.sent = IF rUpd = "ok" THEN 1 ELSE 0
          /\ \A text \in Texts :
               LET r == CarDecideClaimRun(CarCloseRejectionModalRun(car), claims,
                                          "rejected", Trim(text), "ok", rUpd)
               IN  (~Blank(text) /\ CarConfirmRejection(Outcomes, text)
                      /\ claims' = r.claims /\ car' = r.car /\ out' = r.out)
                     => out'.sent = IF rUpd = "ok" THEN 1 ELSE 0
          /\ LET r == InsApproveClaimRun(ins, claims, rUpd, "ok")
             IN  (InsApproveClaim(Outcomes) /\ claims' = r.claims /\ ins' = r.ins
                    /\ out' = r.out)
                   => out'.sent = IF rUpd = "ok" THEN 1 ELSE 0
          /\ LET r == InsDecideClaimRun(ins, claims, "under_review", Null, "ok", rUpd)
             IN  (InsHoldClaim(Outcomes) /\ claims' = r.claims /\ ins' = r.ins
                    /\ out' = r.out)
                   => out'.sent = IF rUpd = "ok" THEN 1 ELSE 0 ]_vars

\* C10: no outcome of a call that is not essential keeps the primary action
\* from completing.  Whatever the notification lookup returns, an approval
\* whose update succeeds is recorded; whatever the migration and the sweep's
\* update return, a list whose fetch succeeds is displayed; whatever the
\* clearing of the claim's approval returns, a document rejection whose
\* update succeeds is reported as successful.
C10_NonEssentialFailureTolerated ==
    [][ /\ \A rSel \in Caught(Outcomes) :
              LET r == CarDecideClaimRun(car, claims, "approved", Null, rSel, "ok")
              IN  (CarApproveClaim(Outcomes) /\ claims' = r.claims /\ car' = r.car
                     /\ out' = r.out)
                    => /\ out'.toast = "success"
                       /\ claims'[car.currentClaim].car_company_status = "approved"
        /\ \A k \in CarLoadClaimsCalls(Outcomes, claims, documents) :
              LET r == CarLoadClaimsRun(claims, documents, car.listed,
                                        k.migSel, k.migUpd, k.fetch, k.sweep)
              IN  (k.fetch = "ok" /\ CarLoadClaims(Outcomes) /\ claims' = r.claims
                     /\ out' = r.out)
                    => out'.shown
        /\ \A reason \in ReasonOptions, text \in Texts, rClr \in Outcomes :
              LET r == CarConfirmDocumentRejectionRun(car, claims, documents,
                           RejectionNotes(reason, text), "ok", rClr)
              IN  (/\ ~RejectionRefused(reason, text)
                   /\ car.currentDocId # NoDoc
                   /\ CarConfirmDocumentRejection(Outcomes, reason, text)
                   /\ claims' = r.claims /\ documents' = r.documents
                   /\ car' = r.car /\ out' = r.out)
                    => out'.toast = "success" ]_vars

\* A step in which a portal's Verify, or its confirmed document rejection,
\* reported success for the document in the viewer.
CarVerifyDone == out'.toast = "success" /\ CarHandleDocumentDecision(Outcomes, "verify")
InsVerifyDone == out'.toast = "success" /\ InsHandleDocumentDecision(Outcomes, "verify")
CarRejectDone ==
    /\ out'.toast = "success"
    /\ \E reason \in ReasonOptions, text \in Texts :
          CarConfirmDocumentRejection(Outcomes, reason, text)
InsRejectDone ==
    /\ out'.toast = "success"
    /\ \E reason \in ReasonOptions, text \in Texts :
          InsConfirmDocumentRejection(Outcomes, reason, text)

\* No document is verified and carries a rejection note on the same track.
NoVerifiedWithNote ==
    \A d \in Docs :
        /\ documents[d].verified_by_car_company
              => documents[d].car_company_verification_notes = Null
        /\ documents[d].verified_by_insurance_company
              => documents[d].insurance_verification_notes = Null

InsuranceTrackFields ==
    << [d \in Docs |-> << documents[d].verified_by_insurance_company,
                          documents[d].insurance_verification_notes,
                          documents[d].insurance_verification_date >>],
       [c \in Claims |-> << claims[c].is_approved_by_insurance_company,
                            claims[c].insurance_company_approval_date >>] >>
CarCompanyTrackFields ==
    << [d \in Docs |-> << documents[d].verified_by_car_company,
                          documents[d].car_company_verification_notes,
                          documents[d].car_company_verification_date >>],
       [c \in Claims |-> << claims[c].car_company_status,
                            claims[c].is_approved_by_car_company,
                            claims[c].car_company_approval_date >>] >>

\* A session of one portal: the other page is not loaded, so every step is an
\* action of the open portal.
CarSession == car.open /\ ~ins.open
InsSession == ins.open /\ ~car.open

\* C12: the two reviewer tracks are independent.  No action of the
\* car-company portal changes a field of the insurance track, and no action of
\* the insurance portal changes a field of the car-company track.
C12_TracksIndependent ==
    [][ /\ CarSession => UNCHANGED InsuranceTrackFields
        /\ InsSession => UNCHANGED CarCompanyTrackFields ]_vars

\* The insurance reviewer has rejected a document with a note, and the
\* document is still verified on the car-company track, as the car-company
\* reviewer left it.
C12_InsuranceActedCarTrackKept ==
    /\ ins.open
    /\ \E d \in Docs :
          /\ ~documents[d].verified_by_insurance_company
          /\ ~Blank(documents[d].insurance_verification_notes)
          /\ documents[d].verified_by_car_company
          /\ claims[ClaimOf(d)].car_company_status = "pending"

\* A step of a document verify or reject handler in which the update of the
\* document returned an error.
CarDocumentUpdateError ==
    /\ car.currentDocId # NoDoc
    /\ \/ \E decision \in Decisions :
             LET r == CarHandleDocumentDecisionRun(car, claims, documents,
                          decision = "verify", "error", "ok", "ok", "ok", "ok")
             IN  /\ ~car.currentClaimApproved
                 /\ claims' = r.claims /\ documents' = r.documents
                 /\ car' = r.car /\ out' = r.out
                 /\ CarHandleDocumentDecision(Outcomes, decision)
       \/ \E reason \in ReasonOptions, text \in Texts :
             LET r == CarConfirmDocumentRejectionRun(car, claims, documents,
                          RejectionNotes(reason, text), "error", "ok")
             IN  /\ ~RejectionRefused(reason, text)
                 /\ claims' = r.claims /\ documents' = r.documents
                 /\ car' = r.car /\ out' = r.out
                 /\ CarConfirmDocumentRejection(Outcomes, reason, text)
InsDocumentUpdateError ==
    /\ ins.currentDocId # NoDoc
    /\ \/ \E decision \in Decisions :
             LET r == InsHandleDocumentDecisionRun(ins, claims, documents,
                          decision = "verify", "error", "ok")
             IN  /\ ~ins.currentClaimApproved
                 /\ claims' = r.claims /\ documents' = r.documents
                 /\ ins' = r.ins /\ out' = r.out
                 /\ InsHandleDocumentDecision(Outcomes, decision)
       \/ \E reason \in ReasonOptions, text \in Texts :
             LET r == InsConfirmDocumentRejectionRun(ins, claims, documents,
                          RejectionNotes(reason, text), "error", "ok")
             IN  /\ ~RejectionRefused(reason, text)
                 /\ claims' = r.claims /\ documents' = r.documents
                 /\ ins' = r.ins /\ out' = r.out
                 /\ InsConfirmDocumentRejection(Outcomes, reason, text)

\* C20: when the backend returns an error for the update of a document verify
\* or reject, the operation is abandoned: the portal's local document list
\* keeps its values, no row of the documents or the claims is written, no
\* timer is armed to run anything again, and the error message of the failed
\* decision is shown.
C20_FailedDocumentUpdateAbandoned ==
    [][ /\ CarDocumentUpdateError =>
              /\ car'.currentDocuments = car.currentDocuments
              /\ documents' = documents
              /\ claims' = claims
              /\ car'.redirectTimer = car.redirectTimer
              /\ car'.currentDocId = car.currentDocId
              /\ out'.toast = "unsaved"
        /\ InsDocumentUpdateError =>
              /\ ins'.currentDocuments = ins.currentDocuments
              /\ documents' = documents
              /\ claims' = claims
              /\ ins'.redirectTimer = ins.redirectTimer
              /\ ins'.currentDocId = ins.currentDocId
              /\ out'.toast = "unsaved" ]_vars

\* The error of a failed decision is on screen over the viewer, open with its verification controls
\* on a document of a claim that is not approved, and neither the backend nor
\* the local list has any document verified or rejected.
C20_ErrorShownNothingWritten ==
    /\ car.viewerOpen /\ car.verifyControls
    /\ car.currentDocId # NoDoc
    /\ ~car.currentClaimApproved
    /\ out.toast = "unsaved"
    /\ \A d \in Docs : /\ ~documents[d].verified_by_car_company
                       /\ documents[d].car_company_verification_notes = Null
    /\ \A i \in 1..Len(car.currentDocuments) :
          /\ ~car.currentDocuments[i].verified
          /\ car.currentDocuments[i].notes = Null

\* C13: a user without a session, or whose role resolves to null, never
\* reaches initializeApp of a portal, and whenever the login page has ended a
\* role resolution for a signed-in user without a role (after an explicit
\* login, a restored session or an auth-state change) it shows the
\* access-denied message.
C13_NoRoleNoPortalAndToldSo ==
    /\ (browser.role = "null" \/ ~browser.session) => browser.app = "none"
    /\ browser.denied # "no" => browser.message = "no_role"

\* C19: the load of the login page that finds the justLoggedOut flag removes
\* it and leaves the login page only when the user signs in or enters an
\* address, never by the restored session or an auth-state change, whenever
\* the timer and the calls settle; a load that does not find the flag sends a
\* restored session with a role to its page.
C19_NoRedirectAfterLogout ==
    [][ /\ (Bootstrap /\ browser.justLoggedOut) =>
              ~browser'.justLoggedOut /\ browser'.isLoggingOut
        /\ (browser.location = "/" /\ browser.afterLogout
              /\ browser'.location # "/") =>
              browser'.arrived \in {"login", "visit"}
        /\ (browser.step = "session" /\ ~browser.afterLogout /\ browser.session
              /\ browser.role # "null" /\ browser'.step # "session"
              /\ browser'.location = "/") =>
              \* getSession failed
              SessionRestored({"error", "throw"}) ]_vars

\* The role string was put together with the word car and the word company
\* among its atoms, in any case and order.
HasCarAndCompany(atoms) ==
    /\ \E i \in 1..Len(atoms) : atoms[i] \in CarWords
    /\ \E i \in 1..Len(atoms) : atoms[i] \in CompanyWords

\* C14: for every role string that contains the word car and the word
\* company, in any order and letter case and with any of the separators
\* between its words or none, normalizeRole of the login page and of the
\* portals returns car_company, and normalizeSelection returns the dbRole
\* car_company.
C14_CarCompanyRecognised ==
    (probe.fn # "none" /\ HasCarAndCompany(probe.atoms))
        => probe.result = "car_company"

\* 'COMPANY-Car' has been normalised to car_company.
C14_UpperCaseReversedNormalised ==
    /\ probe.fn = "portal"
    /\ probe.atoms = << W_COMPANY, << "-" >>, W_Car >>
    /\ probe.result = "car_company"

\* What the resolution of a user must come to, given the normalised metadata
\* candidates and the role each fallback table's lookup yields ("null":
\* nothing): the first metadata role and no query, or else the tables queried
\* in their order up to the first that yields a role.
ResolvedInOrder(res, metaRoles, tableRoles) ==
    LET yields == {k \in 1..Len(tableRoles) : tableRoles[k] # "null"}
        last == IF yields = {} THEN Len(tableRoles) ELSE Min(yields)
    IN  IF \E i \in 1..Len(metaRoles) : metaRoles[i] # "null"
        THEN /\ res.queried = << >>
             /\ \E i \in 1..Len(metaRoles) :
                   /\ res.role = metaRoles[i]
                   /\ metaRoles[i] # "null"
                   /\ \A j \in 1..(i - 1) : metaRoles[j] = "null"
        ELSE /\ res.queried = [k \in 1..last |-> k]
             /\ res.role = IF yields = {} THEN "null" ELSE tableRoles[last]

C16_ListViewHasNoDocumentsFeed ==
    live.page = "claims" =>
        /\ ~live.docSub
        /\ ~live.docPoll
        /\ live.claimsPoll

\* C17: at most one debounce timer is pending per channel at any time, so a
\* burst of events, each within the window of the one before, ends in one
\* reload after its last event.
C17_OnePendingTimerPerChannel ==
    \A ch \in Channels : Cardinality(live.pending[ch]) <= 1

\* C18: no handler that issues a backend mutation has two invocations
\* outstanding at once: its control is suspended from the start of a call
\* until the call has completed or failed.
C18_NoOverlappingInvocation ==
    \A h \in Handlers : controls.outstanding[h] <= 1

CountsPartition(row) ==
    /\ row.total = row.verified + row.rejected + row.pending
    /\ row.verified >= 0 /\ row.rejected >= 0 /\ row.pending >= 0

\* C22: in every row of either portal's list, total = verified + rejected +
\* pending with no count negative, whatever the documents' verified flags and
\* notes are.
C22_CountsPartitionTheDocuments ==
    /\ (probe.car.done /\ probe.car.listed) => CountsPartition(probe.car)
    /\ (probe.ins.done /\ probe.ins.listed) => CountsPartition(probe.ins)

\* C29: the insurance portal lists a claim exactly when the car-company
\* portal's row counts every car-company document of it as verified: at
\* least one document, none pending, none rejected.
C29_EligibleIffCarCountsAllVerified ==
    (probe.car.done /\ probe.ins.done) =>
        (probe.ins.listed <=>
            /\ probe.car.total > 0
            /\ probe.car.pending = 0
            /\ probe.car.rejected = 0)

\* A claim row in the appealed state.
Appealed(row) == row.status = "appealed" \/ row.car_company_status = "appealed"

\* C23: no step writes 'appealed' into a claim's status or
\* car_company_status, and no step changes the status or car_company_status
\* of a claim that is in the appealed state.
C23_AppealedNeverWrittenNorLeft ==
    [][ \A c \in Claims :
          /\ claims'[c].status = "appealed" => claims[c].status = "appealed"
          /\ claims'[c].car_company_status = "appealed"
                => claims[c].car_company_status = "appealed"
          /\ Appealed(claims[c]) =>
                /\ claims'[c].status = claims[c].status
                /\ claims'[c].car_company_status = claims[c].car_company_status
      ]_vars

\* C24: when a Verify in the car-company viewer succeeds and the viewer moves
\* on to another document, that document is one not verified yet.
C24_AdvancesToUnverifiedDocument ==
    [][ ( /\ car.open /\ car.viewerOpen /\ car'.viewerOpen
          /\ car'.currentDocId # car.currentDocId
          /\ car'.currentDocId # NoDoc
          /\ CarVerifyDone )
            => ~documents'[car'.currentDocId].verified_by_car_company ]_vars

\* C25: a claim approved by the car company stays approved, in its status
\* and in its flag, over every step before and after which all of its
\* car-company documents are verified.
C25_ApprovalKeptWhileDocsVerified ==
    [][ \A c \in Claims :
          (CarDocsVerified(c) /\ CarDocsVerified(c)') =>
              /\ claims[c].car_company_status = "approved"
                    => claims'[c].car_company_status = "approved"
              /\ claims[c].is_approved_by_car_company
                    => claims'[c].is_approved_by_car_company ]_vars

\* C27: car_company_status is 'approved' exactly when
\* is_approved_by_car_company is set.
C27_ApprovalFieldsAgree ==
    \A c \in Claims :
        claims[c].car_company_status = "approved"
            <=> claims[c].is_approved_by_car_company

\* No timer armed, no reload running, no change event on its way.
EchoQuiet ==
    /\ live.echo = 0
    /\ live.pending["claims"] = {}
    /\ live.running["claims"] = {}

\* C26: a list load updates no row of the claims table when no claim needs
\* migrating or reverting, so with the subscription active and no change from
\* elsewhere the reloads started by one change event come to an end: the list
\* reaches a state with no event, timer or reload left, and stays there.
C26_ReloadChainTerminates == <>[]EchoQuiet

\* C26, its first half alone: a reload that finds nothing to migrate or
\* revert sends no change event of its own.
LoadOfSettledListWritesNothing ==
    [][\A t \in Timers :
          (CarListSettled(claims, documents) /\ EchoReloadDone(t))
              => live'.echo = live.echo]_vars

\* The tab has settled on a page: the page's script has run to its end.
RouteSettled == browser.step = "ready"

\* The login page sent the tab to a portal and the portal initialised the app
\* for the role the login page found.
RoutePortalReady ==
    /\ probe.fn = "route"
    /\ browser.step = "ready"
    /\ browser.location \in {"/car-company/", "/insurance-company/"}
    /\ browser.app = probe.login

\* C28: the login page's resolver and the portals' resolvers agree, so a
\* signed-in user is not sent from the login page to a portal and back without
\* end: the tab settles on a page and stays there.
C28_RedirectsComeToRest == <>[]RouteSettled

\* The form's fields hold what the signup handler asks for: an email, a
\* password of the least length that equals its confirmation, a role selected.
SignupPayloadValid ==
    /\ Trim(probe.email) # << >>
    /\ Len(probe.password) >= MinPasswordLength
    /\ probe.password = probe.confirmPassword
    /\ probe.selection # << >>

\* C30: the signup handler calls signUp only if the email is not empty, the
\* password has at least 8 characters and equals its confirmation and a
\* portal role was selected; otherwise it shows an error, calls nothing and
\* leaves the submit button enabled.
C30_SignUpOnlyWithValidPayload ==
    ("selection" \in DOMAIN probe /\ probe.fn # "none") =>
        /\ probe.signUp # "none" => SignupPayloadValid
        /\ ~SignupPayloadValid =>
              /\ probe.message \in {"enter_email", "password_too_short",
                                    "passwords_do_not_match", "select_role"}
              /\ probe.signUp = "none"
              /\ ~probe.disabled

=============================================================================
